---- MODULE Spec2Model ----
(***************************************************************************)
(* Model of the TTS engine manager (tts_system/tts_interface.py), the      *)
(* audio quality gate (tts_pipeline/qa.py), the pipeline driver            *)
(* (tts_pipeline/main.py), the IELTS generator                             *)
(* (tts_system/ielts_generator.py), the accent policy                      *)
(* (tts_pipeline/policy.py), the transcription server (whisper_server.py), *)
(* the conversation mixer (tts_pipeline/mixing.py) and the progress        *)
(* tracker and content sanitizer (tts_pipeline/utils.py).                  *)
(*                                                                         *)
(* Spec         : a TTSManager after construction, serving synthesize      *)
(*                calls.                                                   *)
(* SpecQA       : the quality gate and the reporter applied to metrics     *)
(*                records.                                                 *)
(* SpecPipeline : TTSPipeline.run_pipeline and main, step by step.         *)
(* SpecIELTS    : IELTSAudioGenerator.generate_section1_conversation.      *)
(* SpecAccent   : AccentPolicy over the module-level random generator.     *)
(* SpecWhisper  : the transcription endpoint serving requests.             *)
(* SpecProgress : a ProgressTracker under any sequence of calls.           *)
(* SpecSanitizer: the sanitizing of the topic in _validate_inputs.         *)
(* SpecMix      : ConversationMixer.mix_conversation, segment by segment.  *)
(***************************************************************************)
EXTENDS Integers, Sequences, FiniteSets, TLC

VARIABLES
    providers,         \* TTSManager.providers: the set of registered engines
    preferred_engine,  \* TTSManager.preferred_engine
    fallback_engine,   \* TTSManager.fallback_engine
    request,           \* arguments of the last synthesize call
    calls,             \* adapter synthesize_async calls made by the last call
    result,            \* result record returned by the last call
    error,             \* exception the last call ended with
    results,           \* metrics record given to the quality gate
    checks,            \* record returned by _validate_quality_standards
    analysis,          \* argument of the last _generate_recommendations call
    recommendations,   \* list returned by the last _generate_recommendations call
    args,              \* the argument dict given to run_pipeline
    cli_errors,        \* list returned by ConfigValidator.validate_cli_args
    pc,                \* TTSPipeline.run_pipeline / main: the step to execute next
    executed,          \* the pipeline steps executed so far, in order
    outcome,           \* how each executed step ended
    outputs,           \* keys of the outputs dict built by _create_outputs
    exit_code,         \* argument of sys.exit in main
    conversation_type, \* generate_section1_conversation: the conversation_type argument
    use_offline_only,  \* generate_section1_conversation: the use_offline_only argument
    working,           \* the adapters whose synthesize_async never raises
    selected_engine,   \* generate_section1_conversation: selected_engine
    turn,              \* the script turn the generation loop handles next
    segments,          \* generate_section1_conversation: segments
    synth_log,         \* the synthesize calls the loop has made, in order, with their end
    files,             \* the segment files that exist
    html_file,         \* the HTML player file written by _create_html_player
    metadata_file,     \* the text of metadata.json
    metadata,          \* the record generate_section1_conversation returns
    gen_pc,            \* generate_section1_conversation: position, or the exception raised
    cli_mode,          \* generate_ielts_audio.py: args.mode, "direct" without the script
    cli_pc,            \* generate_ielts_audio.py main: position
    cli_exit,          \* generate_ielts_audio.py main: the value returned
    rng,               \* the state of the generator of the random module
    first_call,        \* a seeded select_accents_for_listening call and its result
    last_call,         \* the last later call with the arguments of first_call
    disturbed,         \* the generator was used or reseeded since first_call
    whisper_model,     \* whisper_server: the model is loaded
    http_request,      \* the last request of the transcription endpoint
    http_response,     \* the response to it
    mix_pc,            \* ConversationMixer: position in mix_conversation
    mix_segments,      \* ConversationMixer: the segments given to mix_conversation
    add_overlaps,      \* ConversationMixer: the add_overlaps argument
    timed_segments,    \* _calculate_conversation_timing: timed_segments
    last_gap,          \* _calculate_natural_gap: the last call and the gap it returned
    positions,         \* _create_mixed_audio: the overlay positions, in ms
    steps,             \* ProgressTracker.steps
    current_step,      \* ProgressTracker.current_step
    total_steps,       \* ProgressTracker.total_steps
    percentage,        \* value returned by the last get_progress_percentage
    requested_topic,   \* the topic the pipeline was called with
    topic,             \* args['topic']
    sanitized          \* the sanitizing block of _validate_inputs has run

ttsVars == <<providers, preferred_engine, fallback_engine, request, calls, result, error>>
qaVars == <<results, checks, analysis, recommendations>>
pipeVars == <<args, cli_errors, pc, executed, outcome, outputs, exit_code>>
ieltsVars == <<conversation_type, use_offline_only, working, selected_engine, turn, segments,
               synth_log, files, html_file, metadata_file, metadata, gen_pc,
               cli_mode, cli_pc, cli_exit>>
accentVars == <<rng, first_call, last_call, disturbed>>
whisperVars == <<whisper_model, http_request, http_response>>
mixVars == <<mix_pc, mix_segments, add_overlaps, timed_segments, last_gap, positions>>
progressVars == <<steps, current_step, total_steps, percentage>>
sanitizerVars == <<requested_topic, topic, sanitized>>
utilVars == <<whisperVars, mixVars, progressVars, sanitizerVars>>
vars == <<providers, preferred_engine, fallback_engine, request, calls, result, error,
          results, checks, analysis, recommendations,
          args, cli_errors, pc, executed, outcome, outputs, exit_code,
          conversation_type, use_offline_only, working, selected_engine, turn, segments,
          synth_log, files, html_file, metadata_file, metadata, gen_pc,
          cli_mode, cli_pc, cli_exit,
          rng, first_call, last_call, disturbed,
          whisper_model, http_request, http_response,
          mix_pc, mix_segments, add_overlaps, timed_segments, last_gap, positions,
          steps, current_step, total_steps, percentage,
          requested_topic, topic, sanitized>>

---------------------------------------------------------------------------
(* Bounds *)

MaxText == 2
MaxAttempts == 2
MaxTurns == 3
MaxSpeakers == 2
MaxSeed == 1
MaxTotal == 3
MaxWords == 2
MaxSegments == 2

Texts == 1..MaxText
OutputFiles == {"a.wav", "b.wav"}
None == "None"
Voices == {None, "en-GB-RyanNeural"}
\* fails[i] = TRUE: the i-th adapter call of a synthesize call raises
FailurePatterns == [1..MaxAttempts -> BOOLEAN]

---------------------------------------------------------------------------
(* TTS engines and adapters *)

EDGE_TTS == "edge_tts"
BARK == "bark"
PYTTSX3 == "pyttsx3"
GTTS == "gtts"
SYSTEM_TTS == "system"

TTSEngine == {EDGE_TTS, BARK, PYTTSX3, GTTS, SYSTEM_TTS}

\* the is_offline property of each adapter
IsOffline(e) ==
    CASE e = EDGE_TTS -> FALSE
      [] e = BARK -> TRUE
      [] e = PYTTSX3 -> TRUE
      [] e = GTTS -> FALSE
      [] e = SYSTEM_TTS -> TRUE

\* the 'engine' key an adapter puts in its own result
AdapterEngineName(e) == IF e = SYSTEM_TTS THEN "system_espeak" ELSE e

\* the record an adapter's synthesize_async returns when it does not raise
AdapterResult(e, output_file) ==
    [success |-> TRUE, output_file |-> output_file, engine |-> AdapterEngineName(e)]

NoRequest == [engine |-> None, text |-> 0, output_file |-> None, voice |-> None]
NoResult == [success |-> FALSE, output_file |-> None, engine |-> None]
NoError == [msg |-> "none", engine |-> None]
NoEnginesError == [msg |-> "No TTS engines available", engine |-> None]
KeyErrorOf(e) == [msg |-> "KeyError", engine |-> e]
\* the exception raised by adapter e's synthesize_async
AdapterError(e) == [msg |-> "synthesis failed", engine |-> e]

---------------------------------------------------------------------------
(* TTSManager._set_engine_preferences *)

\* variant: pyttsx3 is tested before Bark
SetPreferredPyttsx3First(provs) ==
    IF EDGE_TTS \in provs THEN EDGE_TTS
    ELSE IF PYTTSX3 \in provs THEN PYTTSX3
    ELSE IF BARK \in provs THEN BARK
    ELSE None

\* variant: pyttsx3 is not a candidate for the preferred engine
SetPreferredWithoutPyttsx3(provs) ==
    IF EDGE_TTS \in provs THEN EDGE_TTS
    ELSE IF BARK \in provs THEN BARK
    ELSE None

SetPreferred(provs) ==
    IF EDGE_TTS \in provs THEN EDGE_TTS
    ELSE IF BARK \in provs THEN BARK
    ELSE IF PYTTSX3 \in provs THEN PYTTSX3
    ELSE None

\* variant: gTTS is not a candidate for the fallback engine
FallbackOrderWithoutGtts == <<BARK, PYTTSX3, SYSTEM_TTS>>

FallbackOrder == <<BARK, PYTTSX3, GTTS, SYSTEM_TTS>>

\* variant: the loop does not exclude the preferred engine
RECURSIVE FallbackLoopKeepsPreferred(_, _, _)
FallbackLoopKeepsPreferred(order, provs, pref) ==
    IF order = <<>> THEN None
    ELSE IF Head(order) \in provs THEN Head(order)
    ELSE FallbackLoopKeepsPreferred(Tail(order), provs, pref)

RECURSIVE FallbackLoop(_, _, _)
FallbackLoop(order, provs, pref) ==
    IF order = <<>> THEN None
    ELSE IF Head(order) \in provs /\ Head(order) # pref THEN Head(order)
    ELSE FallbackLoop(Tail(order), provs, pref)

SetFallback(provs, pref) == FallbackLoop(FallbackOrder, provs, pref)

---------------------------------------------------------------------------
(* TTSManager.synthesize *)

Outcome(cs, res, err) == [calls |-> cs, result |-> res, error |-> err]

\* one call of an adapter's synthesize_async; raised records how the call ended
Call(e, text, output_file, voice, raised) ==
    [engine |-> e, text |-> text, output_file |-> output_file, voice |-> voice,
     raised |-> raised]

\* target_engine = engine or self.preferred_engine
TargetEngine(engine) == IF engine # None THEN engine ELSE preferred_engine

\* if not target_engine or target_engine not in self.providers
NeedsReplacement(target) == target = None \/ target \notin providers

\* result['engine_used'], result['is_offline'] of the first attempt
TagResult(res, target) ==
    [success |-> res.success, output_file |-> res.output_file, engine |-> res.engine,
     engine_used |-> target, is_offline |-> IsOffline(target)]

\* variant: the fallback result is tagged with the preferred engine
TagFallbackResultAsPreferred(res) ==
    [success |-> res.success, output_file |-> res.output_file, engine |-> res.engine,
     engine_used |-> preferred_engine, is_offline |-> IsOffline(fallback_engine),
     used_fallback |-> TRUE]

\* result['engine_used'], result['is_offline'], result['used_fallback']
TagFallbackResult(res) ==
    [success |-> res.success, output_file |-> res.output_file, engine |-> res.engine,
     engine_used |-> fallback_engine, is_offline |-> IsOffline(fallback_engine),
     used_fallback |-> TRUE]

\* variant: the retry does not test that the target differs from the fallback
ShouldTryFallbackAlways(target) == fallback_engine # None

\* if self.fallback_engine and target_engine != self.fallback_engine
ShouldTryFallback(target) == fallback_engine # None /\ target # fallback_engine

\* variant: the retry does not pass the voice on
FallbackAttemptDropsVoice(cs, text, output_file, voice, fails) ==
    IF fallback_engine \notin providers
    THEN Outcome(cs, NoResult, KeyErrorOf(fallback_engine))
    ELSE LET cs2 == Append(cs, Call(fallback_engine, text, output_file, None,
                                    fails[Len(cs) + 1]))
         IN IF fails[Len(cs2)]
            THEN Outcome(cs2, NoResult, AdapterError(fallback_engine))
            ELSE Outcome(cs2, TagFallbackResult(AdapterResult(fallback_engine, output_file)),
                         NoError)

\* variant: a failure of the fallback is swallowed and a failed result returned
FallbackAttemptSwallows(cs, text, output_file, voice, fails) ==
    IF fallback_engine \notin providers
    THEN Outcome(cs, NoResult, KeyErrorOf(fallback_engine))
    ELSE LET cs2 == Append(cs, Call(fallback_engine, text, output_file, voice,
                                    fails[Len(cs) + 1]))
         IN IF fails[Len(cs2)]
            THEN Outcome(cs2, [success |-> FALSE, output_file |-> output_file,
                               engine |-> AdapterEngineName(fallback_engine)], NoError)
            ELSE Outcome(cs2, TagFallbackResult(AdapterResult(fallback_engine, output_file)),
                         NoError)

\* the body of the except branch that retries against the fallback adapter
FallbackAttempt(cs, text, output_file, voice, fails) ==
    IF fallback_engine \notin providers
    THEN Outcome(cs, NoResult, KeyErrorOf(fallback_engine))
    ELSE LET cs2 == Append(cs, Call(fallback_engine, text, output_file, voice,
                                    fails[Len(cs) + 1]))
         IN IF fails[Len(cs2)]
            THEN Outcome(cs2, NoResult, AdapterError(fallback_engine))
            ELSE Outcome(cs2, TagFallbackResult(AdapterResult(fallback_engine, output_file)),
                         NoError)

\* the try/except around the first adapter call
FirstAttempt(target, text, output_file, voice, fails) ==
    LET cs == <<Call(target, text, output_file, voice, fails[1])>>
    IN IF ~fails[1]
       THEN Outcome(cs, TagResult(AdapterResult(target, output_file), target), NoError)
       ELSE IF ShouldTryFallback(target)
            THEN FallbackAttempt(cs, text, output_file, voice, fails)
            ELSE Outcome(cs, NoResult, AdapterError(target))

SynthesizeOutcome(text, output_file, engine, voice, fails) ==
    LET target0 == TargetEngine(engine)
    IN IF NeedsReplacement(target0)
       THEN IF fallback_engine # None
            THEN FirstAttempt(fallback_engine, text, output_file, voice, fails)
            ELSE Outcome(<<>>, NoResult, NoEnginesError)
       ELSE FirstAttempt(target0, text, output_file, voice, fails)

\* variant: a successful fallback is promoted to preferred engine
SynthesizePromotesFallback(text, output_file, engine, voice, fails) ==
    LET o == SynthesizeOutcome(text, output_file, engine, voice, fails)
    IN /\ request' = [engine |-> engine, text |-> text, output_file |-> output_file,
                      voice |-> voice]
       /\ calls' = o.calls
       /\ result' = o.result
       /\ error' = o.error
       /\ preferred_engine' = IF Len(o.calls) = 2 /\ o.error = NoError
                              THEN fallback_engine ELSE preferred_engine
       /\ UNCHANGED <<providers, fallback_engine>>
       /\ UNCHANGED qaVars
       /\ UNCHANGED pipeVars
       /\ UNCHANGED <<ieltsVars, accentVars, utilVars>>

Synthesize(text, output_file, engine, voice, fails) ==
    LET o == SynthesizeOutcome(text, output_file, engine, voice, fails)
    IN /\ request' = [engine |-> engine, text |-> text, output_file |-> output_file,
                      voice |-> voice]
       /\ calls' = o.calls
       /\ result' = o.result
       /\ error' = o.error
       /\ UNCHANGED <<providers, preferred_engine, fallback_engine>>
       /\ UNCHANGED qaVars
       /\ UNCHANGED pipeVars
       /\ UNCHANGED <<ieltsVars, accentVars, utilVars>>

---------------------------------------------------------------------------
(* AudioQualityAnalyzer (tts_pipeline/qa.py)                               *)
(* Metrics are integers in scaled units: duration in seconds,              *)
(* silence_ratio in percent, max_pause_duration in tenths of a second,     *)
(* peak_db in tenths of a dB, estimated_lufs in LUFS, rms_db in dB.        *)

\* -np.inf, the level of a digitally silent signal: below every threshold
NegInf == -100000

quality_standards ==
    [min_duration |-> 30, max_duration |-> 600, max_silence_ratio |-> 20,
     max_pause_duration |-> 12, min_lufs |-> -23, max_lufs |-> -14,
     max_peak_db |-> -10, min_rms_db |-> -40]

MetricKeys == {"duration", "silence_ratio", "max_pause_duration", "peak_db",
               "estimated_lufs", "rms_db"}

\* the values each metric is drawn from: below, on and above every threshold
MetricRange ==
    [duration |-> {29, 30, 120, 600, 601},
     silence_ratio |-> {10, 20, 21},
     max_pause_duration |-> {8, 12, 13, 21},
     peak_db |-> {NegInf, -10, -9},
     estimated_lufs |-> {-24, -23, -18, -14, -13},
     rms_db |-> {NegInf, -41, -40},
     dynamics_quality |-> {"good", "compressed"}]

MetricValues ==
    [duration : MetricRange.duration,
     silence_ratio : MetricRange.silence_ratio,
     max_pause_duration : MetricRange.max_pause_duration,
     peak_db : MetricRange.peak_db,
     estimated_lufs : MetricRange.estimated_lufs,
     rms_db : MetricRange.rms_db,
     dynamics_quality : MetricRange.dynamics_quality]

\* the keys of an analysis record that the quality gate and the reporter read
AnalysisKeys == MetricKeys \cup {"dynamics_quality"}

\* a metrics record: any subset of the keys may be missing
MetricsRecords ==
    {[k \in present |-> full[k]] : present \in SUBSET AnalysisKeys, full \in MetricValues}

NoChecks == [error |-> TRUE]

\* dict.get(key, default)
Get(d, key, default) == IF key \in DOMAIN d THEN d[key] ELSE default

\* variant: the loudness check is gating too
critical_checks_with_lufs == <<"duration_ok", "silence_ok", "pause_ok", "peak_ok", "lufs_ok">>

critical_checks == <<"duration_ok", "silence_ok", "pause_ok", "peak_ok">>

\* variant: the peak comparison is strict
CheckFlagsStrictPeak(res) ==
    LET standards == quality_standards
        duration == Get(res, "duration", 0)
        silence_ratio == Get(res, "silence_ratio", 100)
        max_pause == Get(res, "max_pause_duration", 0)
        peak_db == Get(res, "peak_db", 0)
        lufs == Get(res, "estimated_lufs", -50)
        rms_db == Get(res, "rms_db", NegInf)
    IN [duration_ok |-> standards.min_duration <= duration
                        /\ duration <= standards.max_duration,
        silence_ok |-> silence_ratio <= standards.max_silence_ratio,
        pause_ok |-> max_pause <= standards.max_pause_duration,
        peak_ok |-> peak_db < standards.max_peak_db,
        lufs_ok |-> standards.min_lufs <= lufs /\ lufs <= standards.max_lufs,
        rms_ok |-> rms_db >= standards.min_rms_db]

\* the individual check flags, in the order the code computes them
CheckFlags(res) ==
    LET standards == quality_standards
        duration == Get(res, "duration", 0)
        silence_ratio == Get(res, "silence_ratio", 100)
        max_pause == Get(res, "max_pause_duration", 0)
        peak_db == Get(res, "peak_db", 0)
        lufs == Get(res, "estimated_lufs", -50)
        rms_db == Get(res, "rms_db", NegInf)
    IN [duration_ok |-> standards.min_duration <= duration
                        /\ duration <= standards.max_duration,
        silence_ok |-> silence_ratio <= standards.max_silence_ratio,
        pause_ok |-> max_pause <= standards.max_pause_duration,
        peak_ok |-> peak_db <= standards.max_peak_db,
        lufs_ok |-> standards.min_lufs <= lufs /\ lufs <= standards.max_lufs,
        rms_ok |-> rms_db >= standards.min_rms_db]

\* all(checks.get(check, False) for check in critical_checks)
OverallPass(flags) ==
    \A i \in 1..Len(critical_checks) : Get(flags, critical_checks[i], FALSE)

\* [key for key in critical_checks if not checks.get(key, False)]
FailedChecks(flags) ==
    SelectSeq(critical_checks, LAMBDA key : ~Get(flags, key, FALSE))

ValidateQualityStandards(res) ==
    LET flags == CheckFlags(res)
        failed_checks == FailedChecks(flags)
    IN [duration_ok |-> flags.duration_ok, silence_ok |-> flags.silence_ok,
        pause_ok |-> flags.pause_ok, peak_ok |-> flags.peak_ok,
        lufs_ok |-> flags.lufs_ok, rms_ok |-> flags.rms_ok,
        overall_pass |-> OverallPass(flags),
        failure_reasons |-> failed_checks,
        summary |-> IF failed_checks # <<>> THEN "FAILED" ELSE "PASSED: All quality checks"]

Validate ==
    /\ checks' = ValidateQualityStandards(results)
    /\ UNCHANGED <<results, analysis, recommendations>>
    /\ UNCHANGED ttsVars
    /\ UNCHANGED pipeVars
    /\ UNCHANGED <<ieltsVars, accentVars, utilVars>>

---------------------------------------------------------------------------
(* QualityReporter._generate_recommendations (tts_pipeline/qa.py) *)

\* the analysis record analyze_audio_quality returns: the metrics with the
\* quality_check attached, or the error record when the analysis raised
Analysis(res, qc) ==
    IF qc = NoChecks
    THEN [quality_check |-> qc, overall_pass |-> FALSE]
    ELSE [k \in DOMAIN res \cup {"quality_check", "overall_pass"} |->
            IF k = "quality_check" THEN qc
            ELSE IF k = "overall_pass" THEN qc.overall_pass
            ELSE res[k]]

DurationRecommendations(a, quality_check) ==
    IF ~Get(quality_check, "duration_ok", TRUE)
    THEN LET duration == Get(a, "duration", 0)
         IN IF duration < 30 THEN <<"Increase content length">>
            ELSE IF duration > 600 THEN <<"Reduce content length">>
            ELSE <<>>
    ELSE <<>>

SilenceRecommendations(a, quality_check) ==
    IF ~Get(quality_check, "silence_ok", TRUE)
    THEN LET silence_ratio == Get(a, "silence_ratio", 0)
         IN IF silence_ratio > 30 THEN <<"Reduce silence">>
            ELSE IF silence_ratio > 20 THEN <<"Consider shortening some pauses">>
            ELSE <<>>
    ELSE <<>>

PauseRecommendations(a, quality_check) ==
    IF ~Get(quality_check, "pause_ok", TRUE)
    THEN LET max_pause == Get(a, "max_pause_duration", 0)
         IN IF max_pause > 20 THEN <<"Reduce maximum pause duration">>
            ELSE IF max_pause > 15 THEN <<"Consider shortening longest pauses">>
            ELSE <<>>
    ELSE <<>>

PeakRecommendations(a, quality_check) ==
    IF ~Get(quality_check, "peak_ok", TRUE)
    THEN LET peak_db == Get(a, "peak_db", 0)
         IN IF peak_db > -10 THEN <<"Reduce audio levels">> ELSE <<>>
    ELSE <<>>

LufsRecommendations(a, quality_check) ==
    IF ~Get(quality_check, "lufs_ok", TRUE)
    THEN LET lufs == Get(a, "estimated_lufs", 0)
         IN IF lufs > -14 THEN <<"Reduce overall loudness">>
            ELSE IF lufs < -23 THEN <<"Increase overall loudness">>
            ELSE <<>>
    ELSE <<>>

DynamicsRecommendations(a) ==
    IF Get(a, "dynamics_quality", "") = "compressed"
    THEN <<"Improve dynamic range">>
    ELSE <<>>

GenericRecommendation == "Audio quality meets all standards - good for deployment"

\* variant: the generic message is not appended to an empty list
GenerateRecommendationsNoGeneric(a) ==
    LET quality_check == Get(a, "quality_check", [k \in {} |-> TRUE])
        collected == DurationRecommendations(a, quality_check)
                     \o SilenceRecommendations(a, quality_check)
                     \o PauseRecommendations(a, quality_check)
                     \o PeakRecommendations(a, quality_check)
                     \o LufsRecommendations(a, quality_check)
                     \o DynamicsRecommendations(a)
    IN collected

GenerateRecommendations(a) ==
    LET quality_check == Get(a, "quality_check", [k \in {} |-> TRUE])
        collected == DurationRecommendations(a, quality_check)
                     \o SilenceRecommendations(a, quality_check)
                     \o PauseRecommendations(a, quality_check)
                     \o PeakRecommendations(a, quality_check)
                     \o LufsRecommendations(a, quality_check)
                     \o DynamicsRecommendations(a)
    IN IF Len(collected) = 0 THEN <<GenericRecommendation>> ELSE collected

NoAnalysis == [error |-> "no call"]

Recommend ==
    /\ analysis' = Analysis(results, checks)
    /\ recommendations' = GenerateRecommendations(Analysis(results, checks))
    /\ UNCHANGED <<results, checks>>
    /\ UNCHANGED ttsVars
    /\ UNCHANGED pipeVars
    /\ UNCHANGED <<ieltsVars, accentVars, utilVars>>

---------------------------------------------------------------------------
(* TTSPipeline.run_pipeline and main (tts_pipeline/main.py) *)

PipelineSteps ==
    <<"validate_inputs", "initialize_services", "generate_content", "select_accents",
      "synthesize_conversation", "analyze_audio_quality", "transcribe_audio",
      "generate_vocabulary_audio", "create_outputs", "final_validation">>

StepSet == {PipelineSteps[i] : i \in 1..Len(PipelineSteps)}

\* a step helper returns its value ("ok"), returns its failure value ("fail":
\* False, None, an empty script, overall_pass False) or raises ("raise")
Outcomes == {"ok", "fail", "raise"}

NotRun == "not run"
Running == -1

\* the position after step: the next step in the list, or the return
NextStep(step) ==
    LET i == CHOOSE j \in 1..Len(PipelineSteps) : PipelineSteps[j] = step
    IN IF i < Len(PipelineSteps) THEN PipelineSteps[i + 1] ELSE "return_success"

---------------------------------------------------------------------------
(* ConfigValidator.validate_cli_args (tts_pipeline/utils.py)               *)
(* An argument value is a record of its Python type and its value.         *)

IntVal(n) == [type |-> "int", val |-> n]
FloatVal(n) == [type |-> "float", val |-> n]
StrVal(x) == [type |-> "str", val |-> x]
NoneVal == [type |-> "NoneType"]

valid_goals == <<"general", "toefl", "ielts", "pte", "business">>
valid_levels == <<"A1", "A2", "B1", "B2", "C1", "C2">>

\* x in list
InList(x, list) == \E i \in 1..Len(list) : list[i] = x

ArgKeys == {"goal", "level", "topic", "duration_sec", "vocab_count"}

\* the values each argument is drawn from
ArgRange ==
    [goal |-> {StrVal(valid_goals[i]) : i \in 1..Len(valid_goals)}
              \cup {StrVal("invalid_goal"), NoneVal},
     level |-> {StrVal(valid_levels[i]) : i \in 1..Len(valid_levels)}
               \cup {StrVal("X1"), NoneVal},
     topic |-> {StrVal("hotel booking"), StrVal(""), NoneVal},
     duration_sec |-> {IntVal(29), IntVal(30), IntVal(600), IntVal(601), FloatVal(120),
                       NoneVal},
     vocab_count |-> {IntVal(0), IntVal(1), IntVal(50), IntVal(51), FloatVal(10), NoneVal}]

\* an argument dict: any subset of the keys may be missing
ArgRecords ==
    {[k \in present |-> full[k]] :
        present \in SUBSET ArgKeys,
        full \in [goal : ArgRange.goal, level : ArgRange.level, topic : ArgRange.topic,
                  duration_sec : ArgRange.duration_sec, vocab_count : ArgRange.vocab_count]}

\* for req in required: if req not in args or args[req] is None
MissingErrors(a) ==
    LET required == <<"goal", "level", "topic", "duration_sec">>
        missing == SelectSeq(required,
                             LAMBDA req : req \notin DOMAIN a \/ a[req].type = "NoneType")
    IN [i \in 1..Len(missing) |-> "Missing required argument"]

GoalErrors(a) ==
    LET goal == Get(a, "goal", NoneVal)
    IN IF ~(goal.type = "str" /\ InList(goal.val, valid_goals))
       THEN <<"Invalid goal">> ELSE <<>>

LevelErrors(a) ==
    LET level == Get(a, "level", NoneVal)
    IN IF ~(level.type = "str" /\ InList(level.val, valid_levels))
       THEN <<"Invalid level">> ELSE <<>>

\* variant: the upper bound of the duration is not tested
DurationErrorsNoUpperBound(a) ==
    LET duration == Get(a, "duration_sec", IntVal(0))
    IN IF duration.type # "int" \/ duration.val < 30
       THEN <<"Duration must be integer between 30-600 seconds">> ELSE <<>>

DurationErrors(a) ==
    LET duration == Get(a, "duration_sec", IntVal(0))
    IN IF duration.type # "int" \/ duration.val < 30 \/ duration.val > 600
       THEN <<"Duration must be integer between 30-600 seconds">> ELSE <<>>

VocabCountErrors(a) ==
    LET vocab_count == Get(a, "vocab_count", IntVal(0))
    IN IF vocab_count.type # "int" \/ vocab_count.val < 1 \/ vocab_count.val > 50
       THEN <<"Vocab count must be integer between 1-50">> ELSE <<>>

ValidateCliArgs(a) ==
    MissingErrors(a) \o GoalErrors(a) \o LevelErrors(a) \o DurationErrors(a)
    \o VocabCountErrors(a)

NotValidated == <<"validate_cli_args not called">>

---------------------------------------------------------------------------
(* TTSPipeline.run_pipeline, continued *)

PipelineIdle ==
    /\ cli_errors = NotValidated
    /\ pc = "validate_inputs"
    /\ executed = <<>>
    /\ outcome = [st \in StepSet |-> NotRun]
    /\ outputs = {}
    /\ exit_code = Running

\* a step whose failure value, or exception, makes run_pipeline return False
GatingStep(step, o) ==
    /\ pc = step
    /\ executed' = Append(executed, step)
    /\ outcome' = [outcome EXCEPT ![step] = o]
    /\ pc' = IF o = "ok" THEN NextStep(step) ELSE "return_false"
    /\ UNCHANGED <<args, cli_errors, outputs, exit_code>>
    /\ UNCHANGED <<ttsVars, qaVars, ieltsVars, accentVars, utilVars>>

\* a step whose failure is caught inside its helper and only reported
AdvisoryStep(step, o) ==
    /\ pc = step
    /\ executed' = Append(executed, step)
    /\ outcome' = [outcome EXCEPT ![step] = o]
    /\ pc' = NextStep(step)
    /\ UNCHANGED <<args, cli_errors, outputs, exit_code>>
    /\ UNCHANGED <<ttsVars, qaVars, ieltsVars, accentVars, utilVars>>

\* _validate_inputs: the CLI arguments are validated first; with no CLI error
\* the voice configuration is loaded and validated (o)
ValidateInputs ==
    \E o \in Outcomes :
        LET errors == ValidateCliArgs(args)
            res == IF errors # <<>> THEN "fail" ELSE o
        IN /\ pc = "validate_inputs"
           /\ cli_errors' = errors
           /\ executed' = Append(executed, "validate_inputs")
           /\ outcome' = [outcome EXCEPT !["validate_inputs"] = res]
           /\ pc' = IF res = "ok" THEN NextStep("validate_inputs") ELSE "return_false"
           /\ UNCHANGED <<args, outputs, exit_code>>
           /\ UNCHANGED <<ttsVars, qaVars, ieltsVars, accentVars, utilVars>>

InitializeServices == \E o \in Outcomes : GatingStep("initialize_services", o)

GenerateContent == \E o \in Outcomes : GatingStep("generate_content", o)

SelectAccents == \E o \in {"ok", "raise"} : AdvisoryStep("select_accents", o)

SynthesizeConversation == \E o \in Outcomes : GatingStep("synthesize_conversation", o)

\* listening_qa['overall_pass'] is True ("ok") or False ("fail"); an exception
\* of the analyzer is caught and gives overall_pass False as well ("raise")
AnalyzeAudioQuality == \E o \in Outcomes : GatingStep("analyze_audio_quality", o)

\* variant: a failed transcription is only reported
TranscribeAudioAdvisory == \E o \in Outcomes : AdvisoryStep("transcribe_audio", o)

TranscribeAudio == \E o \in Outcomes : GatingStep("transcribe_audio", o)

GenerateVocabularyAudio == \E o \in Outcomes : AdvisoryStep("generate_vocabulary_audio", o)

\* _create_outputs: the outputs dict, empty when the helper raised
CreateOutputs ==
    \E o \in {"ok", "raise"} :
        /\ pc = "create_outputs"
        /\ executed' = Append(executed, "create_outputs")
        /\ outcome' = [outcome EXCEPT !["create_outputs"] = o]
        /\ outputs' = IF o = "raise" THEN {}
                      ELSE {"listening_audio", "transcript", "report"}
                           \cup (IF outcome["generate_vocabulary_audio"] = "ok"
                                 THEN {"vocabulary_audio"} ELSE {})
        /\ pc' = NextStep("create_outputs")
        /\ UNCHANGED <<args, cli_errors, exit_code>>
        /\ UNCHANGED <<ttsVars, qaVars, ieltsVars, accentVars, utilVars>>

\* _final_validation: both required outputs are present and their files exist
FinalValidation ==
    \E files_exist \in BOOLEAN :
        LET success == {"listening_audio", "report"} \subseteq outputs /\ files_exist
        IN /\ pc = "final_validation"
           /\ executed' = Append(executed, "final_validation")
           /\ outcome' = [outcome EXCEPT !["final_validation"] =
                              IF success THEN "ok" ELSE "fail"]
           /\ pc' = IF success THEN "return_success" ELSE "return_false"
           /\ UNCHANGED <<args, cli_errors, outputs, exit_code>>
           /\ UNCHANGED <<ttsVars, qaVars, ieltsVars, accentVars, utilVars>>

\* main: sys.exit(0 if success else 1)
Exit ==
    /\ pc \in {"return_success", "return_false"}
    /\ exit_code' = IF pc = "return_success" THEN 0 ELSE 1
    /\ pc' = "exited"
    /\ UNCHANGED <<args, cli_errors, executed, outcome, outputs>>
    /\ UNCHANGED <<ttsVars, qaVars, ieltsVars, accentVars, utilVars>>

---------------------------------------------------------------------------
(* IELTSAudioGenerator.generate_section1_conversation                      *)
(* (tts_system/ielts_generator.py)                                         *)

\* the speaker of the i-th turn of the swimming_lesson script: the speakers
\* alternate, except that turns 27 and 28 are both the receptionist's
ScriptSpeaker(i) ==
    IF i <= 27
    THEN IF i % 2 = 1 THEN "receptionist" ELSE "customer"
    ELSE IF i % 2 = 0 THEN "receptionist" ELSE "customer"

\* the first MaxTurns turns of the script; the text of turn i is written i
ConversationScript == [i \in 1..MaxTurns |-> [speaker |-> ScriptSpeaker(i), text |-> i]]

ConversationTypes == {"swimming_lesson", "job_interview"}

\* preferred_engines of the mode
PreferredEngines(offline_only) ==
    IF offline_only THEN <<PYTTSX3, SYSTEM_TTS>> ELSE <<EDGE_TTS, PYTTSX3>>

\* the first preferred engine that get_engine_info lists as available
RECURSIVE FindEngine(_, _)
FindEngine(engines, provs) ==
    IF engines = <<>> THEN None
    ELSE IF Head(engines) \in provs THEN Head(engines)
    ELSE FindEngine(Tail(engines), provs)

\* _get_voice_mapping
VoiceMapping(engine) ==
    CASE engine = EDGE_TTS ->
           [receptionist |-> "en-GB-SoniaNeural", customer |-> "en-GB-RyanNeural"]
      [] engine = PYTTSX3 -> [receptionist |-> "female", customer |-> "male"]
      [] engine = GTTS -> [receptionist |-> "en-co.uk", customer |-> "en-co.uk"]
      [] engine = SYSTEM_TTS -> [receptionist |-> "en-gb", customer |-> "en-gb"]
      [] OTHER -> [receptionist |-> "default", customer |-> "default"]

\* self.output_dir / f"segment_{i:02d}_{speaker}.wav"
SegmentFile(i, speaker) ==
    "segment_" \o (IF i < 10 THEN "0" ELSE "") \o ToString(i) \o "_" \o speaker \o ".wav"

SegmentInfo(i, speaker, text, voice, res) ==
    [segment_id |-> i, speaker |-> speaker, text |-> text,
     file |-> SegmentFile(i, speaker),
     voice_used |-> Get(res, "voice_used", voice),
     engine_used |-> Get(res, "engine_used", None),
     is_offline |-> Get(res, "is_offline", FALSE)]

\* variant: the newest segment is put at the front of the list
AppendSegmentAtFront(segs, info) == <<info>> \o segs

\* segments.append(segment_info)
AppendSegment(segs, info) == Append(segs, info)

\* conversation_type.replace("_", " ").title()
Title(ct) ==
    CASE ct = "swimming_lesson" -> "Swimming Lesson"
      [] ct = "job_interview" -> "Job Interview"

\* str.upper() on an engine name
Upper(name) ==
    CASE name = EDGE_TTS -> "EDGE_TTS"
      [] name = BARK -> "BARK"
      [] name = PYTTSX3 -> "PYTTSX3"
      [] name = GTTS -> "GTTS"
      [] name = SYSTEM_TTS -> "SYSTEM"
      [] name = "unknown" -> "UNKNOWN"

\* the phrases of the page that depend on is_offline
HtmlPhrases(is_offline) ==
    IF is_offline
    THEN {"Iranian Production Ready", "Fully Offline",
          "Fully self-hosted and offline compatible", "Self-Hosted",
          "Ready for Iranian deployment - No external dependencies"}
    ELSE {"Development Mode", "Online Required", "Requires internet connection",
          "High Quality", "Development version with high-quality online TTS"}

\* the page _create_html_player writes for the segments
HtmlPlayer(segs, ct, is_offline_mode) ==
    LET engine_name == IF segs # <<>> THEN segs[1].engine_used ELSE "unknown"
        is_offline == IF segs # <<>> THEN segs[1].is_offline ELSE FALSE
    IN [path |-> "ielts_" \o ct \o "_" \o (IF is_offline_mode THEN "offline" ELSE "online")
                 \o ".html",
        title |-> "IELTS Section 1 - " \o Title(ct),
        engine |-> Upper(engine_name),
        phrases |-> HtmlPhrases(is_offline)]

\* variant: the engine recorded is the one that produced the first segment
BuildMetadataEngineOfFirstSegment(segs) ==
    [title |-> "IELTS Section 1 - " \o Title(conversation_type),
     total_segments |-> Len(segs),
     successful_segments |-> Cardinality({i \in 1..Len(segs) : segs[i].file \in files}),
     engine_used |-> IF segs # <<>> THEN segs[1].engine_used ELSE "unknown",
     is_offline_compatible |-> use_offline_only,
     conversation_type |-> conversation_type,
     html_player |-> html_file.path,
     segments |-> segs]

\* the metadata dict
BuildMetadata(segs) ==
    [title |-> "IELTS Section 1 - " \o Title(conversation_type),
     total_segments |-> Len(segs),
     successful_segments |-> Cardinality({i \in 1..Len(segs) : segs[i].file \in files}),
     engine_used |-> selected_engine,
     is_offline_compatible |-> use_offline_only,
     conversation_type |-> conversation_type,
     html_player |-> html_file.path,
     segments |-> segs]

\* json: a bool is written true/false, a string between double quotes
JsonBool(b) == IF b THEN "true" ELSE "false"
JsonString(x) == <<"\"", x, "\"">>
JsonLoadBool(t) == t = "true"
JsonLoadString(t) == t[2]

\* json.dump(metadata, f): the members of the object that are read back
JsonDump(m) ==
    [title |-> JsonString(m.title),
     total_segments |-> ToString(m.total_segments),
     successful_segments |-> ToString(m.successful_segments),
     engine_used |-> JsonString(m.engine_used),
     is_offline_compatible |-> JsonBool(m.is_offline_compatible),
     conversation_type |-> JsonString(m.conversation_type)]

\* json.load(f)
JsonLoad(t) ==
    [title |-> JsonLoadString(t.title),
     engine_used |-> JsonLoadString(t.engine_used),
     is_offline_compatible |-> JsonLoadBool(t.is_offline_compatible),
     conversation_type |-> JsonLoadString(t.conversation_type)]

NoFile == [path |-> None]
NoMetadata == [title |-> None]

GeneratorIdle ==
    /\ conversation_type = "swimming_lesson"
    /\ use_offline_only = FALSE
    /\ working = {}
    /\ selected_engine = None
    /\ turn = 1
    /\ segments = <<>>
    /\ synth_log = <<>>
    /\ files = {}
    /\ html_file = NoFile
    /\ metadata_file = NoFile
    /\ metadata = NoMetadata
    /\ gen_pc = "not called"
    /\ cli_mode = "direct"
    /\ cli_pc = "not run"
    /\ cli_exit = Running

\* lines 36-55: the script is fetched and the engine selected
SelectEngine ==
    LET selected == FindEngine(PreferredEngines(use_offline_only), providers)
    IN /\ gen_pc = "start"
       /\ IF conversation_type # "swimming_lesson"
          THEN /\ gen_pc' = "ValueError"
               /\ UNCHANGED selected_engine
          ELSE IF selected = None
          THEN /\ gen_pc' = "RuntimeError"
               /\ UNCHANGED selected_engine
          ELSE /\ gen_pc' = "loop"
               /\ selected_engine' = selected
       /\ UNCHANGED <<conversation_type, use_offline_only, working, turn, segments,
                      synth_log, files, html_file, metadata_file, metadata>>
       /\ UNCHANGED <<cli_mode, cli_pc, cli_exit>>
       /\ UNCHANGED <<ttsVars, qaVars, pipeVars, accentVars, utilVars>>

\* one iteration of the loop over the script: the synthesize call is awaited,
\* a result is appended to segments, an exception is logged and skipped
SynthesizeTurn ==
    \E fails \in FailurePatterns :
        LET i == turn
            speaker == ConversationScript[i].speaker
            text == ConversationScript[i].text
            segment_file == SegmentFile(i, speaker)
            voice == VoiceMapping(selected_engine)[speaker]
            o == SynthesizeOutcome(text, segment_file, selected_engine, voice, fails)
        IN /\ gen_pc = "loop"
           /\ \A k \in 1..Len(o.calls) : o.calls[k].raised => o.calls[k].engine \notin working
           /\ request' = [engine |-> selected_engine, text |-> text,
                          output_file |-> segment_file, voice |-> voice]
           /\ calls' = o.calls
           /\ result' = o.result
           /\ error' = o.error
           /\ synth_log' = Append(synth_log, [turn |-> i, raised |-> o.error # NoError])
           /\ IF o.error = NoError
              THEN /\ segments' = AppendSegment(segments,
                                                SegmentInfo(i, speaker, text, voice, o.result))
                   /\ files' = files \cup {segment_file}
              ELSE UNCHANGED <<segments, files>>
           /\ turn' = i + 1
           /\ gen_pc' = IF i < Len(ConversationScript) THEN "loop" ELSE "html"
           /\ UNCHANGED <<providers, preferred_engine, fallback_engine>>
           /\ UNCHANGED <<conversation_type, use_offline_only, working, selected_engine,
                          html_file, metadata_file, metadata>>
           /\ UNCHANGED <<cli_mode, cli_pc, cli_exit>>
           /\ UNCHANGED <<qaVars, pipeVars, accentVars, utilVars>>

\* _create_html_player
CreateHtmlPlayer ==
    /\ gen_pc = "html"
    /\ html_file' = HtmlPlayer(segments, conversation_type, use_offline_only)
    /\ gen_pc' = "save"
    /\ UNCHANGED <<conversation_type, use_offline_only, working, selected_engine, turn,
                   segments, synth_log, files, metadata_file, metadata>>
    /\ UNCHANGED <<cli_mode, cli_pc, cli_exit>>
    /\ UNCHANGED <<ttsVars, qaVars, pipeVars, accentVars, utilVars>>

\* lines 103-131: the metadata is built, written to metadata.json and returned
SaveMetadata ==
    /\ gen_pc = "save"
    /\ metadata' = BuildMetadata(segments)
    /\ metadata_file' = [path |-> "metadata.json", text |-> JsonDump(BuildMetadata(segments))]
    /\ gen_pc' = "done"
    /\ UNCHANGED <<conversation_type, use_offline_only, working, selected_engine, turn,
                   segments, synth_log, files, html_file>>
    /\ UNCHANGED <<cli_mode, cli_pc, cli_exit>>
    /\ UNCHANGED <<ttsVars, qaVars, pipeVars, accentVars, utilVars>>

---------------------------------------------------------------------------
(* generate_ielts_audio.py: main *)

CliModes == {"dev", "production", "auto"}

\* any(not e['is_offline'] for e in engine_info['available_engines'])
HasOnline(provs) == \E e \in provs : ~IsOffline(e)

\* len(engine_info['offline_engines']) > 0
HasOffline(provs) == \E e \in provs : IsOffline(e)

\* the auto branch: the mode chosen, or the value main returns at once
AutoMode(provs) ==
    IF HasOnline(provs) /\ ~HasOffline(provs)
    THEN [use_offline_only |-> FALSE, returned |-> Running]
    ELSE IF HasOffline(provs)
    THEN [use_offline_only |-> TRUE, returned |-> Running]
    ELSE [use_offline_only |-> FALSE, returned |-> 1]

\* main up to the call of the generator: the generation mode is determined
ChooseMode ==
    LET choice == CASE cli_mode = "production" ->
                         [use_offline_only |-> TRUE, returned |-> Running]
                    [] cli_mode = "dev" ->
                         [use_offline_only |-> FALSE, returned |-> Running]
                    [] OTHER -> AutoMode(providers)
    IN /\ cli_pc = "main"
       /\ use_offline_only' = choice.use_offline_only
       /\ cli_exit' = choice.returned
       /\ IF choice.returned = Running
          THEN cli_pc' = "generating" /\ gen_pc' = "start"
          ELSE cli_pc' = "returned" /\ UNCHANGED gen_pc
       /\ UNCHANGED <<conversation_type, working, selected_engine, turn, segments,
                      synth_log, files, html_file, metadata_file, metadata, cli_mode>>
       /\ UNCHANGED <<ttsVars, qaVars, pipeVars, accentVars, utilVars>>

\* main after the generator: 0 when it returned, 1 when it raised
MainReturn ==
    /\ cli_pc = "generating"
    /\ gen_pc \in {"done", "ValueError", "RuntimeError"}
    /\ cli_exit' = IF gen_pc = "done" THEN 0 ELSE 1
    /\ cli_pc' = "returned"
    /\ UNCHANGED <<conversation_type, use_offline_only, working, selected_engine, turn,
                   segments, synth_log, files, html_file, metadata_file, metadata, gen_pc,
                   cli_mode>>
    /\ UNCHANGED <<ttsVars, qaVars, pipeVars, accentVars, utilVars>>

---------------------------------------------------------------------------
(* AccentPolicy (tts_pipeline/policy.py) and the random module             *)

\* the generator of the random module, as a linear congruential generator:
\* random.seed(x) fixes the state, every draw reads the state and advances it
RngMod == 16
SeedState(x) == (11 * x + 3) % RngMod
NextRng(r) == (5 * r + 1) % RngMod

\* random.random() < 0.7, for the draw made in state r
Below70Percent(r) == 10 * r < 7 * RngMod

\* random.choice(population), for the draw made in state r
Pick(population, r) == population[(r * Len(population)) \div RngMod + 1]

\* random.choices(population, k=k) from state r: the list and the state left
RECURSIVE Choices(_, _, _)
Choices(population, k, r) ==
    IF k = 0 THEN [list |-> <<>>, rng |-> r]
    ELSE LET rest == Choices(population, k - 1, NextRng(r))
         IN [list |-> <<Pick(population, r)>> \o rest.list, rng |-> rest.rng]

POLICIES ==
    [general |-> [listening_accents |-> <<"US", "US_FEMALE">>,
                  vocabulary_accents |-> <<"US", "US_FEMALE">>],
     toefl |-> [listening_accents |-> <<"US", "US_FEMALE">>,
                vocabulary_accents |-> <<"US", "US_FEMALE">>],
     ielts |-> [listening_accents |-> <<"UK", "UK_FEMALE", "US", "AU">>,
                vocabulary_accents |-> <<"UK", "UK_FEMALE">>],
     pte |-> [listening_accents |-> <<"UK", "AU", "US", "CA", "IN">>,
              vocabulary_accents |-> <<"UK", "UK_FEMALE">>],
     business |-> [listening_accents |-> <<"US", "UK", "IN", "AR_L2", "ZH_L2", "US_FEMALE",
                                           "UK_FEMALE">>,
                   vocabulary_accents |-> <<"US", "US_FEMALE">>]]

\* the goals given to the policy: the exam types, one in upper case, an unknown one
Goals == {"general", "toefl", "ielts", "pte", "business", "IELTS", "academic"}

\* str.lower()
Lower(goal) == IF goal = "IELTS" THEN "ielts" ELSE goal

\* cls.POLICIES.get(goal.lower(), cls.POLICIES['general'])
GetAccentConfig(goal) == Get(POLICIES, Lower(goal), POLICIES.general)

\* the seed argument: an int or None
Seeds == {IntVal(x) : x \in 0..MaxSeed}
NumSpeakers == 1..MaxSpeakers

\* variant: the seed argument is not used
SeededIgnoresSeed(seed, r) == r

\* if seed is not None: random.seed(seed)
Seeded(seed, r) == IF seed # NoneVal THEN SeedState(seed.val) ELSE r

\* select_accents_for_listening called with generator state r: the list
\* returned and the generator state left
SelectAccentsForListening(goal, num_speakers, seed, r) ==
    LET r0 == Seeded(seed, r)
        accents == GetAccentConfig(goal).listening_accents
    IN IF Lower(goal) = "ielts" /\ num_speakers = 2
       THEN IF Below70Percent(r0)
            THEN Choices(<<"UK", "UK_FEMALE">>, num_speakers, NextRng(r0))
            ELSE LET uk_accents == <<"UK", "UK_FEMALE">>
                     other_accents == <<"US", "AU">>
                     r1 == NextRng(r0)
                     r2 == NextRng(r1)
                 IN [list |-> <<Pick(uk_accents, r1), Pick(other_accents, r2)>>,
                     rng |-> NextRng(r2)]
       ELSE Choices(accents, num_speakers, r0)

NoCall == [goal |-> None]

AccentIdle ==
    /\ rng = 0
    /\ first_call = NoCall
    /\ last_call = NoCall
    /\ disturbed = FALSE

SameArguments(c, goal, num_speakers, seed) ==
    /\ c # NoCall
    /\ c.goal = goal
    /\ c.num_speakers = num_speakers
    /\ c.seed = seed

\* a call of select_accents_for_listening; a seeded call may be kept as the
\* call that later calls with the same arguments are compared with
SelectListening ==
    \E goal \in Goals, num_speakers \in NumSpeakers, seed \in Seeds \cup {NoneVal},
       keep \in BOOLEAN :
        LET res == SelectAccentsForListening(goal, num_speakers, seed, rng)
            call == [goal |-> goal, num_speakers |-> num_speakers, seed |-> seed,
                     accents |-> res.list, disturbed |-> disturbed]
        IN /\ rng' = res.rng
           /\ IF keep /\ seed # NoneVal
              THEN /\ first_call' = call
                   /\ last_call' = NoCall
                   /\ disturbed' = FALSE
              ELSE IF SameArguments(first_call, goal, num_speakers, seed)
              THEN /\ last_call' = call
                   /\ UNCHANGED <<first_call, disturbed>>
              ELSE /\ disturbed' = (first_call # NoCall)
                   /\ UNCHANGED <<first_call, last_call>>
           /\ UNCHANGED <<ttsVars, qaVars, pipeVars, ieltsVars, utilVars>>

\* select_accent_for_vocabulary: reseeds with seed + 1 and draws once
SelectVocabulary ==
    \E goal \in Goals, seed \in Seeds \cup {NoneVal} :
        LET r0 == IF seed # NoneVal THEN SeedState(seed.val + 1) ELSE rng
        IN /\ rng' = NextRng(r0)
           /\ disturbed' = (first_call # NoCall)
           /\ UNCHANGED <<first_call, last_call>>
           /\ UNCHANGED <<ttsVars, qaVars, pipeVars, ieltsVars, utilVars>>

\* ContentGenerator.generate_conversation_script: random.seed(seed)
SeedGenerator ==
    \E seed \in Seeds :
        /\ rng' = SeedState(seed.val)
        /\ disturbed' = (first_call # NoCall)
        /\ UNCHANGED <<first_call, last_call>>
        /\ UNCHANGED <<ttsVars, qaVars, pipeVars, ieltsVars, utilVars>>

\* any other draw from the module-level generator
RandomDraw ==
    /\ rng' = NextRng(rng)
    /\ disturbed' = (first_call # NoCall)
    /\ UNCHANGED <<first_call, last_call>>
    /\ UNCHANGED <<ttsVars, qaVars, pipeVars, ieltsVars, utilVars>>

---------------------------------------------------------------------------
(* whisper_server.py: the transcription endpoint *)

NoHttpRequest == [response_format |-> None]
NoHttpResponse == [status |-> 0]

ResponseFormats == {"json", "verbose_json", "text"}

\* the segments of a Whisper result; a segment may lack keys
WhisperSegments ==
    {<<>>,
     <<[start |-> 0, end |-> 2, text |-> " Hello world."]>>,
     <<[start |-> 0, end |-> 2, text |-> " Hello"], [text |-> " world."]>>}

\* the dicts whisper_model.transcribe returns; any key may be missing
WhisperResults ==
    {[k \in present |-> full[k]] :
        present \in SUBSET {"text", "language", "segments"},
        full \in [text : {StrVal(" Hello world. "), NoneVal}, language : {"fa"},
                  segments : WhisperSegments]}

\* str.strip()
Strip(x) == IF x = " Hello world. " THEN "Hello world." ELSE x

\* the segments member of the verbose response
VerboseSegments(segs) ==
    [i \in 1..Len(segs) |->
        [start |-> Get(segs[i], "start", 0), end |-> Get(segs[i], "end", 0),
         text |-> Get(segs[i], "text", "")]]

HttpError(status, detail) == [status |-> status, detail |-> detail]

\* the response of the endpoint for a request on a loaded model
TranscriptionResponse(language, response_format, readable, res) ==
    IF ~readable THEN HttpError(500, "Transcription failed")
    ELSE IF "text" \notin DOMAIN res THEN HttpError(500, "Transcription failed")
    ELSE LET text_content == IF res.text.type = "str" THEN Strip(res.text.val) ELSE ""
         IN IF response_format = "verbose_json"
            THEN [status |-> 200,
                  body |-> [text |-> text_content,
                            language |-> Get(res, "language",
                                             IF language \notin {None, ""}
                                             THEN language ELSE "en"),
                            duration |-> Get(res, "duration", 0),
                            segments |-> VerboseSegments(Get(res, "segments", <<>>))]]
            ELSE [status |-> 200, body |-> [text |-> text_content]]

WhisperIdle ==
    /\ whisper_model = FALSE
    /\ http_request = NoHttpRequest
    /\ http_response = NoHttpResponse

\* POST /v1/audio/transcriptions; readable: whisper can decode the upload
transcribe_audio ==
    \E content_type \in {"audio/wav", "text/plain"}, language \in {None, "", "fa"},
       response_format \in ResponseFormats, readable \in BOOLEAN, res \in WhisperResults :
        /\ http_request' = [content_type |-> content_type, language |-> language,
                            response_format |-> response_format, readable |-> readable]
        /\ http_response' = IF ~whisper_model
                            THEN HttpError(503, "Whisper model not loaded")
                            ELSE TranscriptionResponse(language, response_format, readable, res)
        /\ UNCHANGED whisper_model
        /\ UNCHANGED <<ttsVars, qaVars, pipeVars, ieltsVars, accentVars>>
        /\ UNCHANGED <<mixVars, progressVars, sanitizerVars>>

---------------------------------------------------------------------------
(* ProgressTracker (tts_pipeline/utils.py) *)

StepDescriptions == {"Validating inputs and configuration"}

\* a percentage, as the quotient num / den, with the total_steps it was computed for
Percentage(num, den, total) == [num |-> num, den |-> den, total_steps |-> total]
NoPercentage == Percentage(0, 0, 0)

ProgressIdle ==
    /\ steps = <<>>
    /\ current_step = 0
    /\ total_steps = 0
    /\ percentage = NoPercentage

set_total_steps ==
    \E total \in 0..MaxTotal :
        /\ total_steps' = total
        /\ steps' = [i \in 1..total |-> ""]
        /\ UNCHANGED <<current_step, percentage>>
        /\ UNCHANGED <<ttsVars, qaVars, pipeVars, ieltsVars, accentVars>>
        /\ UNCHANGED <<whisperVars, mixVars, sanitizerVars>>

update_step ==
    \E step_num \in -1..MaxTotal, description \in StepDescriptions :
        /\ IF 0 <= step_num /\ step_num < Len(steps)
           THEN /\ steps' = [steps EXCEPT ![step_num + 1] = description]
                /\ current_step' = step_num
           ELSE UNCHANGED <<steps, current_step>>
        /\ UNCHANGED <<total_steps, percentage>>
        /\ UNCHANGED <<ttsVars, qaVars, pipeVars, ieltsVars, accentVars>>
        /\ UNCHANGED <<whisperVars, mixVars, sanitizerVars>>

\* (self.current_step + 1) / self.total_steps * 100
ProgressPercentage(current, total) ==
    IF total = 0 THEN Percentage(0, 1, total)
    ELSE Percentage((current + 1) * 100, total, total)

get_progress_percentage ==
    /\ percentage' = ProgressPercentage(current_step, total_steps)
    /\ UNCHANGED <<steps, current_step, total_steps>>
    /\ UNCHANGED <<ttsVars, qaVars, pipeVars, ieltsVars, accentVars>>
    /\ UNCHANGED <<whisperVars, mixVars, sanitizerVars>>

---------------------------------------------------------------------------
(* ContentSanitizer (tts_pipeline/utils.py)                                *)
(* A topic is the sequence of its words.                                   *)

BLOCKED_TERMS ==
    {"adult", "sexual", "intimate", "erotic", "pornographic",
     "violent", "killing", "murder", "weapon", "gun", "knife",
     "gambling", "drugs", "alcohol", "smoking",
     "political", "religion", "religious", "politics"}

\* safe_alternatives, in the order of the dict
safe_alternatives ==
    <<[unsafe |-> "party", safe |-> "celebration"],
      [unsafe |-> "drink", safe |-> "beverage"],
      [unsafe |-> "bar", safe |-> "restaurant"],
      [unsafe |-> "club", safe |-> "social_group"],
      [unsafe |-> "dating", safe |-> "friendship"]>>

TopicWords == {"violent", "gun", "Gun", "party", "Party", "bar", "barbecue", "travel"}

Topics == UNION {[1..n -> TopicWords] : n \in 1..MaxWords}

\* str.lower() on a word
LowerWord(w) ==
    CASE w = "Gun" -> "gun"
      [] w = "Party" -> "party"
      [] OTHER -> w

\* term in word
InWord(term, w) == w = term \/ (w = "barbecue" /\ term = "bar")

\* word.replace(old, new)
ReplaceInWord(w, old, new) ==
    IF w = old THEN new
    ELSE IF w = "barbecue" /\ old = "bar" THEN "restaurantbecue"
    ELSE w

\* term in text.lower()
InLower(term, text) == \E i \in 1..Len(text) : InWord(term, LowerWord(text[i]))

is_safe_content(text) == \A term \in BLOCKED_TERMS : ~InLower(term, text)

\* the loop over safe_alternatives.items()
RECURSIVE SuggestLoop(_, _)
SuggestLoop(alternatives, original_topic) ==
    IF alternatives = <<>> THEN <<"daily_activities">>
    ELSE IF InLower(Head(alternatives).unsafe, original_topic)
    THEN [i \in 1..Len(original_topic) |->
             ReplaceInWord(original_topic[i], Head(alternatives).unsafe,
                           Head(alternatives).safe)]
    ELSE SuggestLoop(Tail(alternatives), original_topic)

suggest_safe_topic(original_topic) == SuggestLoop(safe_alternatives, original_topic)

SanitizerIdle ==
    /\ requested_topic = <<>>
    /\ topic = <<>>
    /\ sanitized = FALSE

\* _validate_inputs, the 'Sanitize content' block: args['topic'] is replaced
\* by the suggestion when it is not safe
SanitizeTopic ==
    /\ ~sanitized
    /\ topic' = IF ~is_safe_content(topic) THEN suggest_safe_topic(topic) ELSE topic
    /\ sanitized' = TRUE
    /\ UNCHANGED requested_topic
    /\ UNCHANGED <<ttsVars, qaVars, pipeVars, ieltsVars, accentVars>>
    /\ UNCHANGED <<whisperVars, mixVars, progressVars>>

---------------------------------------------------------------------------
(* ConversationMixer (tts_pipeline/mixing.py)                              *)
(* Times are in milliseconds.  A text is the sequence of its tokens:       *)
(* words, punctuation marks and the spaces between them.                   *)

\* the clips on disk: the length of the audio in milliseconds, 0 for a file
\* AudioSegment.from_wav cannot load
ClipFiles == {"missing.wav", "short.wav", "long.wav"}
ClipLength(file) ==
    CASE file = "short.wav" -> 50
      [] file = "long.wav" -> 1200
      [] OTHER -> 0
Loadable(file) == file # "missing.wav"

MixTexts ==
    {<<"Hello", "?">>,
     <<" ", "Well", " ", "yes">>,
     <<"Yes", " ", "exactly">>,
     <<"Now", " ", "listen">>,
     <<"Hello", ".">>}

\* the segments given to the mixer; a segment may have no text
MixSegments ==
    [file : ClipFiles, text : MixTexts] \cup [file : ClipFiles]

\* str.strip()
RECURSIVE StripLeft(_)
StripLeft(t) == IF t # <<>> /\ Head(t) = " " THEN StripLeft(Tail(t)) ELSE t
RECURSIVE StripRight(_)
StripRight(t) ==
    IF t # <<>> /\ t[Len(t)] = " " THEN StripRight(SubSeq(t, 1, Len(t) - 1)) ELSE t
StripText(t) == StripRight(StripLeft(t))

\* str.lower()
LowerToken(w) ==
    CASE w = "Hello" -> "hello"
      [] w = "Well" -> "well"
      [] w = "Yes" -> "yes"
      [] w = "Now" -> "now"
      [] OTHER -> w
LowerText(t) == [i \in 1..Len(t) |-> LowerToken(t[i])]

\* len() of a token
TokenLen(w) ==
    CASE w \in {" ", "?", "."} -> 1
      [] w \in {"no", "um", "uh"} -> 2
      [] w \in {"yes", "now", "but"} -> 3
      [] w \in {"well", "wait"} -> 4
      [] w \in {"hello", "right"} -> 5
      [] w = "listen" -> 6
      [] w = "exactly" -> 7
      [] OTHER -> 8

\* a token begins with the letters of another
TokenStartsWith(w, prefix) == w = prefix \/ (w = "now" /\ prefix = "no")

\* text.startswith(prefix)
StartsWith(t, prefix) ==
    /\ Len(t) >= Len(prefix)
    /\ \A i \in 1..(Len(prefix) - 1) : t[i] = prefix[i]
    /\ TokenStartsWith(t[Len(prefix)], prefix[Len(prefix)])

\* text.endswith('?')
EndsWithQuestionMark(t) == t # <<>> /\ t[Len(t)] = "?"

RECURSIVE TextLen(_)
TextLen(t) == IF t = <<>> THEN 0 ELSE TokenLen(Head(t)) + TextLen(Tail(t))

\* word in text[:20]
InFirst20(word, t) ==
    \E i \in 1..Len(t) : t[i] = word /\ TextLen(SubSeq(t, 1, i)) <= 20

base_gaps ==
    [question_response |-> 800, statement_response |-> 500,
     interruption |-> 100, thinking_pause |-> 1200]

\* values of random.uniform(-0.1, 0.2) and of random.uniform(-0.05, 0.1)
GapVariations == {-100, 200}
OverlapVariations == {-50, 100}

Max(a, b) == IF a >= b THEN a ELSE b

SegmentText(segment) == StripText(Get(segment, "text", <<>>))

\* variant: a quick answer is recognised before a question
GapTypeAnswerFirst(prev_segment, curr_segment) ==
    LET prev_text == SegmentText(prev_segment)
        curr_text == SegmentText(curr_segment)
    IN IF \E word \in {<<"yes">>, <<"no">>, <<"right">>} :
              StartsWith(LowerText(curr_text), word)
       THEN "interruption"
       ELSE IF EndsWithQuestionMark(prev_text) THEN "question_response"
       ELSE IF \E word \in {<<"well">>, <<"um">>, <<"uh">>} :
              StartsWith(LowerText(curr_text), word)
       THEN "thinking_pause"
       ELSE "statement_response"

\* _calculate_natural_gap: 'Determine gap type'
GapType(prev_segment, curr_segment) ==
    LET prev_text == SegmentText(prev_segment)
        curr_text == SegmentText(curr_segment)
    IN IF EndsWithQuestionMark(prev_text) THEN "question_response"
       ELSE IF \E word \in {<<"well">>, <<"um">>, <<"uh">>} :
              StartsWith(LowerText(curr_text), word)
       THEN "thinking_pause"
       ELSE IF \E word \in {<<"yes">>, <<"no">>, <<"right">>} :
              StartsWith(LowerText(curr_text), word)
       THEN "interruption"
       ELSE "statement_response"

\* _calculate_natural_gap, variation being the value random.uniform returned
calculate_natural_gap(prev_segment, curr_segment, variation) ==
    Max(50, base_gaps[GapType(prev_segment, curr_segment)] + variation)

interrupt_starters ==
    {<<"but">>, <<"actually">>, <<"wait">>, <<"no">>, <<"yes", " ", "exactly">>}
agreement_words == {"right", "exactly", "absolutely", "definitely"}

should_overlap(prev_segment, curr_segment) ==
    LET curr_lower == LowerText(SegmentText(curr_segment))
    IN \/ \E starter \in interrupt_starters : StartsWith(curr_lower, starter)
       \/ \E word \in agreement_words : InFirst20(word, curr_lower)

calculate_overlap_duration(variation) == Max(50, 150 + variation)

\* the duration of a clip: its length, or 3 s when it cannot be loaded
ClipDuration(file) == IF Loadable(file) THEN ClipLength(file) ELSE 3000

\* variant: the gap is counted from the start of the previous segment
StartTimeFromPreviousStart(prev_segment, overlaps, gap, overlap) ==
    IF overlaps THEN prev_segment.end_time - overlap
    ELSE prev_segment.start_time + gap

\* 'Calculate start time' for a segment after the first
StartTime(prev_segment, overlaps, gap, overlap) ==
    IF overlaps THEN prev_segment.end_time - overlap
    ELSE prev_segment.end_time + gap

\* {**segment, 'start_time': ..., 'end_time': ..., 'duration': ...}
Timed(segment, start_time, duration) ==
    [k \in DOMAIN segment \cup {"start_time", "end_time", "duration"} |->
        CASE k = "start_time" -> start_time
          [] k = "end_time" -> start_time + duration
          [] k = "duration" -> duration
          [] OTHER -> segment[k]]

NoGap == [gap |-> 0]

MixerIdle ==
    /\ mix_pc = "idle"
    /\ mix_segments = <<>>
    /\ add_overlaps = FALSE
    /\ timed_segments = <<>>
    /\ last_gap = NoGap
    /\ positions = <<>>

UtilitiesIdle ==
    /\ WhisperIdle
    /\ MixerIdle
    /\ ProgressIdle
    /\ SanitizerIdle

\* one iteration of the loop of _calculate_conversation_timing
TimeSegment ==
    /\ mix_pc = "timing"
    /\ Len(timed_segments) < Len(mix_segments)
    /\ \E gap_variation \in GapVariations, overlap_variation \in OverlapVariations :
        LET i == Len(timed_segments) + 1
            segment == mix_segments[i]
            duration == ClipDuration(segment.file)
        IN IF i = 1
           THEN /\ timed_segments' = Append(timed_segments, Timed(segment, 0, duration))
                /\ UNCHANGED last_gap
           ELSE LET prev_segment == timed_segments[i - 1]
                    gap == calculate_natural_gap(prev_segment, segment, gap_variation)
                    overlaps == add_overlaps /\ should_overlap(prev_segment, segment)
                    overlap == calculate_overlap_duration(overlap_variation)
                    start_time == StartTime(prev_segment, overlaps, gap, overlap)
                IN /\ timed_segments' =
                        Append(timed_segments, Timed(segment, start_time, duration))
                   /\ last_gap' = [prev_text |-> Get(prev_segment, "text", <<>>),
                                   curr_text |-> Get(segment, "text", <<>>),
                                   variation |-> gap_variation, gap |-> gap]
    /\ UNCHANGED <<mix_pc, mix_segments, add_overlaps, positions>>
    /\ UNCHANGED <<ttsVars, qaVars, pipeVars, ieltsVars, accentVars>>
    /\ UNCHANGED <<whisperVars, progressVars, sanitizerVars>>

\* the overlays of _create_mixed_audio: a clip that cannot be loaded is skipped
RECURSIVE Overlays(_)
Overlays(segs) ==
    IF segs = <<>> THEN <<>>
    ELSE IF Loadable(Head(segs).file)
    THEN <<[file |-> Head(segs).file, position |-> Head(segs).start_time]>>
         \o Overlays(Tail(segs))
    ELSE Overlays(Tail(segs))

\* _create_mixed_audio; max() of no segments raises ValueError
CreateMixedAudio ==
    /\ mix_pc = "timing"
    /\ Len(timed_segments) = Len(mix_segments)
    /\ IF timed_segments = <<>>
       THEN /\ mix_pc' = "ValueError"
            /\ UNCHANGED positions
       ELSE /\ mix_pc' = "mixed"
            /\ positions' = Overlays(timed_segments)
    /\ UNCHANGED <<mix_segments, add_overlaps, timed_segments, last_gap>>
    /\ UNCHANGED <<ttsVars, qaVars, pipeVars, ieltsVars, accentVars>>
    /\ UNCHANGED <<whisperVars, progressVars, sanitizerVars>>

---------------------------------------------------------------------------
(* Specifications *)

\* the state of a TTSManager after __init__, for every set of available adapters
ManagerInit ==
    /\ providers \in SUBSET TTSEngine
    /\ preferred_engine = SetPreferred(providers)
    /\ fallback_engine = SetFallback(providers, preferred_engine)
    /\ request = NoRequest
    /\ calls = <<>>
    /\ result = NoResult
    /\ error = NoError

Init ==
    /\ ManagerInit
    /\ results = [k \in {} |-> 0]
    /\ checks = NoChecks
    /\ analysis = NoAnalysis
    /\ recommendations = <<>>
    /\ args = [k \in {} |-> NoneVal]
    /\ PipelineIdle
    /\ GeneratorIdle
    /\ AccentIdle
    /\ UtilitiesIdle

Next ==
    \E text \in Texts, output_file \in OutputFiles, engine \in TTSEngine \cup {None},
       voice \in Voices, fails \in FailurePatterns :
        Synthesize(text, output_file, engine, voice, fails)

Spec == Init /\ [][Next]_vars

InitQA ==
    /\ providers = {}
    /\ preferred_engine = SetPreferred(providers)
    /\ fallback_engine = SetFallback(providers, preferred_engine)
    /\ request = NoRequest
    /\ calls = <<>>
    /\ result = NoResult
    /\ error = NoError
    /\ results \in MetricsRecords
    /\ checks = NoChecks
    /\ analysis = NoAnalysis
    /\ recommendations = <<>>
    /\ args = [k \in {} |-> NoneVal]
    /\ PipelineIdle
    /\ GeneratorIdle
    /\ AccentIdle
    /\ UtilitiesIdle

NextQA == Validate \/ Recommend

SpecQA == InitQA /\ [][NextQA]_vars

InitPipeline ==
    /\ providers = {}
    /\ preferred_engine = SetPreferred(providers)
    /\ fallback_engine = SetFallback(providers, preferred_engine)
    /\ request = NoRequest
    /\ calls = <<>>
    /\ result = NoResult
    /\ error = NoError
    /\ results = [k \in {} |-> 0]
    /\ checks = NoChecks
    /\ analysis = NoAnalysis
    /\ recommendations = <<>>
    /\ args \in ArgRecords
    /\ PipelineIdle
    /\ GeneratorIdle
    /\ AccentIdle
    /\ UtilitiesIdle

NextPipeline ==
    \/ ValidateInputs
    \/ InitializeServices
    \/ GenerateContent
    \/ SelectAccents
    \/ SynthesizeConversation
    \/ AnalyzeAudioQuality
    \/ TranscribeAudio
    \/ GenerateVocabularyAudio
    \/ CreateOutputs
    \/ FinalValidation
    \/ Exit

SpecPipeline == InitPipeline /\ [][NextPipeline]_vars

\* a generator over a constructed TTSManager: any adapters registered, any of
\* them working, called once, directly in either mode or by the script
InitIELTS ==
    /\ ManagerInit
    /\ results = [k \in {} |-> 0]
    /\ checks = NoChecks
    /\ analysis = NoAnalysis
    /\ recommendations = <<>>
    /\ args = [k \in {} |-> NoneVal]
    /\ PipelineIdle
    /\ cli_mode \in CliModes \cup {"direct"}
    /\ IF cli_mode = "direct"
       THEN /\ conversation_type \in ConversationTypes
            /\ use_offline_only \in BOOLEAN
            /\ gen_pc = "start"
            /\ cli_pc = "not run"
       ELSE /\ conversation_type = "swimming_lesson"
            /\ use_offline_only = FALSE
            /\ gen_pc = "not called"
            /\ cli_pc = "main"
    /\ cli_exit = Running
    /\ working \in SUBSET providers
    /\ selected_engine = None
    /\ turn = 1
    /\ segments = <<>>
    /\ synth_log = <<>>
    /\ files = {}
    /\ html_file = NoFile
    /\ metadata_file = NoFile
    /\ metadata = NoMetadata
    /\ AccentIdle
    /\ UtilitiesIdle

NextIELTS ==
    \/ ChooseMode
    \/ SelectEngine
    \/ SynthesizeTurn
    \/ CreateHtmlPlayer
    \/ SaveMetadata
    \/ MainReturn

SpecIELTS == InitIELTS /\ [][NextIELTS]_vars

\* the accent policy in a process whose generator is in any state
InitAccent ==
    /\ providers = {}
    /\ preferred_engine = SetPreferred(providers)
    /\ fallback_engine = SetFallback(providers, preferred_engine)
    /\ request = NoRequest
    /\ calls = <<>>
    /\ result = NoResult
    /\ error = NoError
    /\ results = [k \in {} |-> 0]
    /\ checks = NoChecks
    /\ analysis = NoAnalysis
    /\ recommendations = <<>>
    /\ args = [k \in {} |-> NoneVal]
    /\ PipelineIdle
    /\ GeneratorIdle
    /\ rng \in 0..(RngMod - 1)
    /\ first_call = NoCall
    /\ last_call = NoCall
    /\ disturbed = FALSE
    /\ UtilitiesIdle

NextAccent == SelectListening \/ SelectVocabulary \/ SeedGenerator \/ RandomDraw

SpecAccent == InitAccent /\ [][NextAccent]_vars

\* every other component idle
OthersIdle ==
    /\ providers = {}
    /\ preferred_engine = SetPreferred(providers)
    /\ fallback_engine = SetFallback(providers, preferred_engine)
    /\ request = NoRequest
    /\ calls = <<>>
    /\ result = NoResult
    /\ error = NoError
    /\ results = [k \in {} |-> 0]
    /\ checks = NoChecks
    /\ analysis = NoAnalysis
    /\ recommendations = <<>>
    /\ args = [k \in {} |-> NoneVal]
    /\ PipelineIdle
    /\ GeneratorIdle
    /\ AccentIdle

\* the server with the model loaded or not
InitWhisper ==
    /\ OthersIdle
    /\ whisper_model \in BOOLEAN
    /\ http_request = NoHttpRequest
    /\ http_response = NoHttpResponse
    /\ MixerIdle
    /\ ProgressIdle
    /\ SanitizerIdle

NextWhisper == transcribe_audio

SpecWhisper == InitWhisper /\ [][NextWhisper]_vars

InitProgress ==
    /\ OthersIdle
    /\ WhisperIdle
    /\ MixerIdle
    /\ ProgressIdle
    /\ SanitizerIdle

NextProgress == set_total_steps \/ update_step \/ get_progress_percentage

SpecProgress == InitProgress /\ [][NextProgress]_vars

InitSanitizer ==
    /\ OthersIdle
    /\ WhisperIdle
    /\ MixerIdle
    /\ ProgressIdle
    /\ requested_topic \in Topics
    /\ topic = requested_topic
    /\ sanitized = FALSE

NextSanitizer == SanitizeTopic

SpecSanitizer == InitSanitizer /\ [][NextSanitizer]_vars

\* mix_conversation called with any list of segments
InitMix ==
    /\ OthersIdle
    /\ WhisperIdle
    /\ ProgressIdle
    /\ SanitizerIdle
    /\ mix_pc = "timing"
    /\ mix_segments \in UNION {[1..n -> MixSegments] : n \in 0..MaxSegments}
    /\ add_overlaps \in BOOLEAN
    /\ timed_segments = <<>>
    /\ last_gap = NoGap
    /\ positions = <<>>

NextMix == TimeSegment \/ CreateMixedAudio

SpecMix == InitMix /\ [][NextMix]_vars

---------------------------------------------------------------------------
(* Properties of TTSManager.synthesize (checked under Spec) *)

Called == request # NoRequest
LastCall == calls[Len(calls)]
\* the number of calls made to adapter e by the last synthesize call
CallsTo(e) == Cardinality({i \in 1..Len(calls) : calls[i].engine = e})

\* C1: when the first adapter tried raises and a fallback engine is set that
\* differs from the engine just tried, the fallback adapter is called exactly
\* once, with the text, output path and voice of the request; if that call
\* succeeds the result has engine_used = the fallback engine and
\* used_fallback = TRUE.
C1_FallbackRetry ==
    (/\ Called
     /\ Len(calls) >= 1
     /\ calls[1].raised
     /\ fallback_engine # None
     /\ calls[1].engine # fallback_engine)
    => /\ Len(calls) >= 2
       /\ CallsTo(fallback_engine) = 1
       /\ calls[2].engine = fallback_engine
       /\ calls[2].text = request.text
       /\ calls[2].output_file = request.output_file
       /\ calls[2].voice = request.voice
       /\ (~calls[2].raised =>
             /\ error = NoError
             /\ result.success
             /\ result.output_file = request.output_file
             /\ result.engine = AdapterEngineName(fallback_engine)
             /\ result.engine_used = fallback_engine
             /\ result.used_fallback = TRUE)

C1_Witness ==
    /\ Called
    /\ Len(calls) = 2
    /\ calls[1].raised
    /\ ~calls[2].raised
    /\ request.voice # None
    /\ result.engine_used = fallback_engine

\* C2: a synthesize call makes at most two adapter calls, never two to the
\* same adapter, and a failure of an adapter that is the fallback engine, or
\* that fails while no fallback is set, is the last call and is propagated.
C2_AtMostOneRetry ==
    Called =>
        /\ Len(calls) <= 2
        /\ \A i, j \in 1..Len(calls) : calls[i].engine = calls[j].engine => i = j
        /\ \A i \in 1..Len(calls) :
              (calls[i].raised /\ (calls[i].engine = fallback_engine \/ fallback_engine = None))
              => /\ i = Len(calls)
                 /\ error = AdapterError(calls[i].engine)
                 /\ result = NoResult

C2_Witness ==
    /\ Called
    /\ Len(calls) = 1
    /\ calls[1].raised
    /\ calls[1].engine = fallback_engine
    /\ error = AdapterError(fallback_engine)

\* the failure the spec calls SynthesisUnavailable: an adapter's exception
\* reaching the caller of synthesize
SynthesisUnavailable(err) == err.msg = "synthesis failed" /\ err.engine \in providers

\* C3: if the first adapter and the fallback adapter both raise, the call ends
\* with the adapter's error propagated and returns no result record.
C3_BothFailPropagates ==
    (Called /\ Len(calls) = 2 /\ calls[1].raised /\ calls[2].raised)
    => /\ SynthesisUnavailable(error)
       /\ error.engine = calls[2].engine
       /\ result = NoResult

C3_Witness ==
    /\ Called
    /\ Len(calls) = 2
    /\ calls[1].raised
    /\ calls[2].raised
    /\ calls[2].engine = fallback_engine
    /\ SynthesisUnavailable(error)

\* the registered engines among the explicit engine, the preferred engine and
\* the fallback engine, in that order
Candidates ==
    SelectSeq(<<request.engine, preferred_engine, fallback_engine>>,
              LAMBDA e : e # None /\ e \in providers)

\* C4: the adapter tried first is the first registered one among the explicit
\* engine, the preferred engine and the fallback engine, and the call fails
\* with 'No TTS engines available' only when none of the three is registered.
C4_ResolutionOrder ==
    Called =>
        IF Candidates = <<>>
        THEN error = NoEnginesError /\ calls = <<>>
        ELSE /\ error # NoEnginesError
             /\ Len(calls) >= 1
             /\ calls[1].engine = Head(Candidates)

\* C5: preferred_engine is the first registered engine in the order
\* Edge TTS, Bark, pyttsx3, and None when none of the three is registered.
C5_PreferredPriority ==
    LET order == <<EDGE_TTS, BARK, PYTTSX3>>
    IN /\ \A i \in 1..Len(order) :
            preferred_engine = order[i]
            <=> (order[i] \in providers /\ \A j \in 1..(i - 1) : order[j] \notin providers)
       /\ preferred_engine = None <=> \A i \in 1..Len(order) : order[i] \notin providers

C5_Witness ==
    /\ preferred_engine = PYTTSX3
    /\ GTTS \in providers
    /\ EDGE_TTS \notin providers
    /\ BARK \notin providers

\* C6: fallback_engine is the first registered engine in the order Bark,
\* pyttsx3, gTTS, system TTS that is not the preferred engine, None when there
\* is no such engine; when set it is registered and differs from the
\* preferred engine.
C6_FallbackPriority ==
    LET order == <<BARK, PYTTSX3, GTTS, SYSTEM_TTS>>
        eligible(e) == e \in providers /\ e # preferred_engine
    IN /\ \A i \in 1..Len(order) :
            fallback_engine = order[i]
            <=> (eligible(order[i]) /\ \A j \in 1..(i - 1) : ~eligible(order[j]))
       /\ fallback_engine = None <=> \A i \in 1..Len(order) : ~eligible(order[i])
       /\ fallback_engine # None
          => (fallback_engine \in providers /\ fallback_engine # preferred_engine)

C6_Witness ==
    /\ preferred_engine = BARK
    /\ BARK \in providers
    /\ PYTTSX3 \notin providers
    /\ fallback_engine = GTTS

\* C7: every returned result carries the identifier and the offline flag of
\* the adapter whose call produced the audio (the last call, which did not
\* raise).
C7_ResultTagsProducer ==
    (Called /\ result # NoResult)
    => /\ Len(calls) >= 1
       /\ ~LastCall.raised
       /\ LastCall.engine \in providers
       /\ result.engine_used = LastCall.engine
       /\ result.engine = AdapterEngineName(LastCall.engine)
       /\ result.is_offline = IsOffline(LastCall.engine)
       /\ result.output_file = request.output_file

\* a result produced by the fallback after the requested engine failed
C7_Witness ==
    /\ Called
    /\ result # NoResult
    /\ Len(calls) = 2
    /\ request.engine # None
    /\ calls[1].engine = request.engine
    /\ result.engine_used = fallback_engine
    /\ result.is_offline # IsOffline(request.engine)

\* a result of the requested engine itself
C7_WitnessRequested ==
    /\ Called
    /\ result # NoResult
    /\ Len(calls) = 1
    /\ request.engine # None
    /\ result.engine_used = request.engine

\* a result of the fallback that replaced an unregistered requested engine
C7_WitnessReplaced ==
    /\ Called
    /\ result # NoResult
    /\ Len(calls) = 1
    /\ request.engine # None
    /\ request.engine \notin providers
    /\ result.engine_used = fallback_engine

\* C8: no synthesize call changes providers, preferred_engine or
\* fallback_engine.
C8_ManagerStateFrozen ==
    [][/\ providers' = providers
       /\ preferred_engine' = preferred_engine
       /\ fallback_engine' = fallback_engine]_vars

C8_Witness ==
    /\ Called
    /\ Len(calls) = 2
    /\ error = NoError
    /\ result.engine_used = fallback_engine
    /\ preferred_engine = SetPreferred(providers)

---------------------------------------------------------------------------
(* Properties of _validate_quality_standards (checked under SpecQA) *)

Validated == checks # NoChecks

\* the metrics record with key k set to v
Put(d, k, v) == [x \in DOMAIN d \cup {k} |-> IF x = k THEN v ELSE d[x]]

C9_WitnessOneFails ==
    /\ Validated
    /\ ~checks.overall_pass
    /\ checks.duration_ok /\ checks.silence_ok /\ checks.pause_ok
    /\ ~checks.peak_ok
    /\ checks.lufs_ok /\ checks.rms_ok

\* the six metrics of a record are in range / out of range in the direction
\* the test names (too short, too much silence, too long a pause, clipping,
\* too loud, too quiet)
InRange(m) ==
    [duration |-> 30 <= m.duration /\ m.duration <= 600,
     silence_ratio |-> m.silence_ratio <= 20,
     max_pause_duration |-> m.max_pause_duration <= 12,
     peak_db |-> m.peak_db <= -10,
     estimated_lufs |-> -23 <= m.estimated_lufs /\ m.estimated_lufs <= -14,
     rms_db |-> m.rms_db >= -40]

OutOfRange(m) ==
    [duration |-> m.duration < 30,
     silence_ratio |-> m.silence_ratio > 20,
     max_pause_duration |-> m.max_pause_duration > 12,
     peak_db |-> m.peak_db > -10,
     estimated_lufs |-> m.estimated_lufs > -14,
     rms_db |-> m.rms_db < -40]

\* C10: a metrics record with exactly one of the six metrics out of its range
\* and the other five in range does not pass.
C10_AnySingleFailureFails ==
    (/\ Validated
     /\ MetricKeys \subseteq DOMAIN results
     /\ \E k \in MetricKeys :
           /\ OutOfRange(results)[k]
           /\ \A o \in MetricKeys \ {k} : InRange(results)[o])
    => ~checks.overall_pass

\* C11: for the metrics a record holds, duration_ok iff 30 <= duration <= 600,
\* silence_ok iff silence ratio <= 20%, pause_ok iff maximum pause <= 1.2 s,
\* peak_ok iff peak <= -1.0 dBFS, lufs_ok iff -23 <= LUFS <= -14 and
\* rms_ok iff RMS >= -40 dBFS; a value on a bound passes.
C11_ThresholdsInclusive ==
    Validated =>
        /\ "duration" \in DOMAIN results
           => (checks.duration_ok <=> (results.duration >= 30 /\ results.duration <= 600))
        /\ "silence_ratio" \in DOMAIN results
           => (checks.silence_ok <=> results.silence_ratio <= 20)
        /\ "max_pause_duration" \in DOMAIN results
           => (checks.pause_ok <=> results.max_pause_duration <= 12)
        /\ "peak_db" \in DOMAIN results
           => (checks.peak_ok <=> results.peak_db <= -10)
        /\ "estimated_lufs" \in DOMAIN results
           => (checks.lufs_ok <=> (results.estimated_lufs >= -23 /\ results.estimated_lufs <= -14))
        /\ "rms_db" \in DOMAIN results
           => (checks.rms_ok <=> results.rms_db >= -40)

\* every metric sits exactly on a bound and every check passes
C11_Witness ==
    /\ Validated
    /\ MetricKeys \subseteq DOMAIN results
    /\ results.duration = 600
    /\ results.silence_ratio = 20
    /\ results.max_pause_duration = 12
    /\ results.peak_db = -10
    /\ results.estimated_lufs = -23
    /\ results.rms_db = -40
    /\ checks.duration_ok /\ checks.silence_ok /\ checks.pause_ok
    /\ checks.peak_ok /\ checks.lufs_ok /\ checks.rms_ok

Recommended == analysis # NoAnalysis

\* the suggestion strings that belong to each check
SuggestionsOf ==
    [duration_ok |-> {"Increase content length", "Reduce content length"},
     silence_ok |-> {"Reduce silence", "Consider shortening some pauses"},
     pause_ok |-> {"Reduce maximum pause duration", "Consider shortening longest pauses"},
     peak_ok |-> {"Reduce audio levels"},
     lufs_ok |-> {"Reduce overall loudness", "Increase overall loudness"}]

\* the number of entries of the returned list that belong to check k
SuggestionCount(k) ==
    Cardinality({i \in 1..Len(recommendations) : recommendations[i] \in SuggestionsOf[k]})

\* C13: given a record holding all six metrics and the quality_check computed
\* from it, each failing check among duration, silence, pause, peak and
\* loudness contributes exactly one suggestion to the returned list.
C13_OneSuggestionPerFailure ==
    (Recommended /\ analysis.quality_check # NoChecks
     /\ MetricKeys \subseteq DOMAIN analysis)
    => \A k \in DOMAIN SuggestionsOf :
          ~analysis.quality_check[k] => SuggestionCount(k) = 1

\* no check of the quality_check in the analysis is recorded as failed
NoCheckFails(a) ==
    \A k \in {"duration_ok", "silence_ok", "pause_ok", "peak_ok", "lufs_ok", "rms_ok"} :
        Get(a.quality_check, k, TRUE)

\* C14 as stated: whenever no quality check fails, the returned list is
\* exactly the generic message.
C14_GenericWhenNothingFails ==
    (Recommended /\ NoCheckFails(analysis))
    => recommendations = <<GenericRecommendation>>

\* C14 as amended: whenever no quality check fails and dynamics_quality is
\* not 'compressed', the returned list is exactly the generic message.
C14_GenericWhenNothingFailsAndNotCompressed ==
    (Recommended /\ NoCheckFails(analysis)
     /\ Get(analysis, "dynamics_quality", "") # "compressed")
    => recommendations = <<GenericRecommendation>>

C14_Witness ==
    /\ Recommended
    /\ analysis.quality_check # NoChecks
    /\ NoCheckFails(analysis)
    /\ Get(analysis, "dynamics_quality", "") = "good"
    /\ recommendations = <<GenericRecommendation>>

---------------------------------------------------------------------------
(* Properties of TTSPipeline.run_pipeline (checked under SpecPipeline) *)

Exited == pc = "exited"
Failed(step) == outcome[step] \in {"fail", "raise"}
LastExecuted == executed[Len(executed)]

\* C12: when the analysis of the listening audio has overall_pass false, the
\* run still executes the output step and produces the audio output and the
\* QA report.
C12_QualityFailureIsAdvisory ==
    (Exited /\ Failed("analyze_audio_quality"))
    => \E i \in 1..Len(executed) : executed[i] = "create_outputs"

CriticalSteps ==
    {"validate_inputs", "initialize_services", "generate_content",
     "synthesize_conversation", "transcribe_audio"}

\* C16: a failure of input validation, service initialisation, content
\* generation, conversation synthesis or transcription is the last step the
\* run executes and the process exits with a non-zero code; exit code 0 means
\* all five succeeded and final validation passed.
C16_FailureStopsPipeline ==
    /\ \A st \in CriticalSteps :
          Failed(st) => /\ LastExecuted = st
                        /\ exit_code # 0
                        /\ pc \in {"return_false", "exited"}
                        /\ Exited => exit_code = 1
    /\ exit_code = 0 =>
          /\ \A st \in CriticalSteps : outcome[st] = "ok"
          /\ outcome["final_validation"] = "ok"

C16_Witness ==
    /\ Exited
    /\ exit_code = 1
    /\ Failed("transcribe_audio")
    /\ LastExecuted = "transcribe_audio"

C16_WitnessSuccess ==
    /\ Exited
    /\ exit_code = 0
    /\ Len(executed) = Len(PipelineSteps)

\* C15: validate_cli_args returns an empty list iff goal is one of
\* general/toefl/ielts/pte/business, level is one of A1..C2, topic is present,
\* duration_sec is an integer in [30, 600] and vocab_count is an integer in
\* [1, 50].
C15_AcceptsExactlyValidArgs ==
    LET present(k) == k \in DOMAIN args /\ args[k].type # "NoneType"
        isStr(k, allowed) == present(k) /\ args[k].type = "str" /\ args[k].val \in allowed
        isIntIn(k, lo, hi) ==
            present(k) /\ args[k].type = "int" /\ args[k].val >= lo /\ args[k].val <= hi
    IN cli_errors # NotValidated =>
          ((cli_errors = <<>>)
           <=> (/\ isStr("goal", {"general", "toefl", "ielts", "pte", "business"})
                /\ isStr("level", {"A1", "A2", "B1", "B2", "C1", "C2"})
                /\ present("topic")
                /\ isIntIn("duration_sec", 30, 600)
                /\ isIntIn("vocab_count", 1, 50)))

\* accepted arguments with the duration and the vocabulary count on a bound
C15_Witness ==
    /\ cli_errors = <<>>
    /\ args.duration_sec = IntVal(600)
    /\ args.vocab_count = IntVal(1)
    /\ args.goal = StrVal("pte")

\* a duration just above the range is rejected
C15_WitnessRejected ==
    /\ cli_errors = <<"Duration must be integer between 30-600 seconds">>
    /\ args.duration_sec = IntVal(601)

---------------------------------------------------------------------------
(* Properties of generate_section1_conversation (checked under SpecIELTS) *)

Generated == gen_pc = "done"
SegmentIds == {segments[k].segment_id : k \in 1..Len(segments)}
RaisedTurns == {synth_log[k].turn : k \in {j \in 1..Len(synth_log) : synth_log[j].raised}}

\* C17: the turns are synthesized strictly in script order, one synthesize
\* call per turn, each ended (returned or raised) before the next starts; the
\* segments have strictly increasing segment_id, no turn twice, and omit
\* exactly the turns whose synthesize call raised.
C17_TurnsInScriptOrder ==
    /\ \A k \in 1..Len(synth_log) : synth_log[k].turn = k
    /\ Len(synth_log) = turn - 1
    /\ \A j, k \in 1..Len(segments) :
          j < k => segments[j].segment_id < segments[k].segment_id
    /\ SegmentIds = (1..Len(synth_log)) \ RaisedTurns
    /\ \A k \in 1..Len(segments) :
          /\ segments[k].speaker = ConversationScript[segments[k].segment_id].speaker
          /\ segments[k].text = ConversationScript[segments[k].segment_id].text

\* a finished run in which a turn in the middle failed and later ones did not
C17_Witness ==
    /\ Generated
    /\ 2 \in RaisedTurns
    /\ Len(segments) = MaxTurns - 1
    /\ segments[2].segment_id = 3

\* C18: metadata.json, reloaded, holds is_offline_compatible = the
\* use_offline_only argument and engine_used = the selected engine, the same
\* values as the returned metadata.
C18_MetadataRoundTrip ==
    Generated =>
        LET saved == JsonLoad(metadata_file.text)
        IN /\ saved.is_offline_compatible = use_offline_only
           /\ saved.engine_used = selected_engine
           /\ saved.is_offline_compatible = metadata.is_offline_compatible
           /\ saved.engine_used = metadata.engine_used

\* an offline run whose first segment was produced by the fallback engine
C18_Witness ==
    /\ Generated
    /\ use_offline_only
    /\ segments # <<>>
    /\ segments[1].engine_used # selected_engine
    /\ metadata_file.text.is_offline_compatible = "true"

WorkingOfflineAdapter == PYTTSX3 \in working \/ SYSTEM_TTS \in working

\* C19: in offline-only mode with a working offline adapter registered
\* (pyttsx3 or system TTS), the swimming-lesson run returns metadata with
\* successful_segments > 0 and is_offline_compatible true, and the HTML player
\* contains 'Iranian Production Ready' and 'Fully Offline'.
C19_OfflineScenario ==
    (/\ use_offline_only
     /\ conversation_type = "swimming_lesson"
     /\ WorkingOfflineAdapter
     /\ gen_pc \in {"done", "ValueError", "RuntimeError"})
    => /\ Generated
       /\ metadata.successful_segments > 0
       /\ metadata.is_offline_compatible
       /\ {"Iranian Production Ready", "Fully Offline"} \subseteq html_file.phrases

---------------------------------------------------------------------------
(* Properties of AccentPolicy (checked under SpecAccent) *)

\* C20: two calls of select_accents_for_listening with the same exam type,
\* speaker count and seed return the same accent list, whatever draws or
\* seeded calls happened between them.
C20_SameSeedSameAccents ==
    (/\ first_call # NoCall
     /\ first_call.seed # NoneVal
     /\ SameArguments(last_call, first_call.goal, first_call.num_speakers, first_call.seed))
    => last_call.accents = first_call.accents

\* a repeated IELTS call on the mixed branch, after other uses of the generator
C20_Witness ==
    /\ first_call # NoCall
    /\ last_call # NoCall
    /\ last_call.disturbed
    /\ first_call.goal = "ielts"
    /\ first_call.num_speakers = 2
    /\ first_call.accents[2] \in {"US", "AU"}

\* a repeated call for an exam type without a branch of its own
C20_WitnessBusiness ==
    /\ first_call # NoCall
    /\ last_call # NoCall
    /\ last_call.disturbed
    /\ first_call.goal = "business"
    /\ first_call.num_speakers = MaxSpeakers

---------------------------------------------------------------------------
(* Further properties of TTSManager (checked under Spec) *)

\* C21 as stated: whenever at least one adapter is registered,
\* preferred_engine is set.
C21_PreferredSetWhenRegistered ==
    providers # {} => preferred_engine # None

\* C21: preferred_engine is set exactly when Edge TTS, Bark or pyttsx3 is
\* registered; with only gTTS and/or system TTS registered it is None.
C21_PreferredSetForPreferredCandidates ==
    (preferred_engine # None) <=> (providers \cap {EDGE_TTS, BARK, PYTTSX3} # {})

\* a manager with pyttsx3 as its only preferred candidate, after a call
C21_Witness ==
    /\ Called
    /\ providers = {PYTTSX3, GTTS}
    /\ preferred_engine = PYTTSX3

\* a manager with adapters but no preferred engine
C21_WitnessNone ==
    /\ Called
    /\ providers = {GTTS, SYSTEM_TTS}
    /\ preferred_engine = None

\* C26: a synthesize call with no explicit engine ends with 'No TTS engines
\* available' if and only if no adapter is registered.
C26_NoEnginesIffNoneRegistered ==
    (Called /\ request.engine = None)
    => ((error = NoEnginesError) <=> (providers = {}))

\* the call on an empty manager
C26_Witness ==
    /\ Called
    /\ request.engine = None
    /\ providers = {}
    /\ error = NoEnginesError

\* a manager without preferred engine serves the call with its fallback
C26_WitnessFallbackOnly ==
    /\ Called
    /\ request.engine = None
    /\ providers = {GTTS}
    /\ error = NoError
    /\ result.engine_used = GTTS

---------------------------------------------------------------------------
(* Further properties of generate_section1_conversation (SpecIELTS) *)

\* C25: with use_offline_only true, every segment recorded in the metadata was
\* produced by an offline adapter: its is_offline is true and its engine_used
\* is the metadata's engine_used.
C25_OfflineRunUsesOfflineAdapters ==
    (Generated /\ use_offline_only)
    => \A k \in 1..Len(metadata.segments) :
          /\ metadata.segments[k].is_offline
          /\ metadata.segments[k].engine_used = metadata.engine_used

\* C30: in the script's auto mode, with some adapter registered, the run
\* never fails with 'No suitable TTS engine available'.
C30_AutoModeSelectsAnEngine ==
    (cli_mode = "auto" /\ providers # {}) => gen_pc # "RuntimeError"

---------------------------------------------------------------------------
(* Properties of the transcription endpoint (checked under SpecWhisper) *)

\* C22: every successful response, for every response_format, contains the
\* fields text, language and segments; a request that cannot be transcribed
\* (model not loaded, or unreadable audio) ends with an HTTP error status.
C22_TranscriptionResponseFields ==
    http_response # NoHttpResponse
    => /\ http_response.status = 200
          => {"text", "language", "segments"} \subseteq DOMAIN http_response.body
       /\ (~whisper_model \/ ~http_request.readable) => http_response.status >= 400

---------------------------------------------------------------------------
(* Properties of ProgressTracker (checked under SpecProgress) *)

\* C27: get_progress_percentage returns 0 when total_steps is 0 and
\* otherwise a value greater than 0 and at most 100.
C27_PercentageInRange ==
    percentage # NoPercentage
    => IF percentage.total_steps = 0
       THEN percentage.num = 0
       ELSE /\ percentage.den > 0
            /\ percentage.num > 0
            /\ percentage.num <= 100 * percentage.den

---------------------------------------------------------------------------
(* Properties of ContentSanitizer (checked under SpecSanitizer) *)

\* C28: for every topic is_safe_content rejects, suggest_safe_topic returns a
\* different topic that is_safe_content accepts, so the topic the pipeline
\* proceeds with contains no blocked term.
C28_SuggestionIsSafe ==
    (sanitized /\ ~is_safe_content(requested_topic))
    => /\ topic = suggest_safe_topic(requested_topic)
       /\ topic # requested_topic
       /\ is_safe_content(topic)

---------------------------------------------------------------------------
(* Properties of ConversationMixer (checked under SpecMix) *)

\* an overlap was injected on turn i
OverlapInjected(i) ==
    add_overlaps /\ should_overlap(timed_segments[i - 1], mix_segments[i])

\* C23: every timed segment has end_time = start_time + duration, the first
\* starts at 0, and a later turn with no overlap injected starts no earlier
\* than the previous segment's end, hence no earlier than its start.
C23_TimingWithoutOverlap ==
    \A i \in 1..Len(timed_segments) :
        /\ timed_segments[i].end_time =
               timed_segments[i].start_time + timed_segments[i].duration
        /\ i = 1 => timed_segments[i].start_time = 0
        /\ (i > 1 /\ ~OverlapInjected(i))
              => /\ timed_segments[i].start_time >= timed_segments[i - 1].end_time
                 /\ timed_segments[i].start_time >= timed_segments[i - 1].start_time

C23_Witness ==
    /\ Len(timed_segments) >= 2
    /\ ~OverlapInjected(2)
    /\ timed_segments[2].start_time > timed_segments[1].end_time
    /\ timed_segments[1].duration = 1200

C23_WitnessOverlap ==
    /\ Len(timed_segments) >= 2
    /\ OverlapInjected(2)
    /\ timed_segments[2].start_time < timed_segments[1].end_time

\* the base gap of the first rule that matches, in the order stated
FirstMatchingBase(prev_text, curr_text) ==
    LET prev == StripText(prev_text)
        curr == LowerText(StripText(curr_text))
    IN IF EndsWithQuestionMark(prev) THEN 800
       ELSE IF StartsWith(curr, <<"well">>) \/ StartsWith(curr, <<"um">>)
               \/ StartsWith(curr, <<"uh">>) THEN 1200
       ELSE IF StartsWith(curr, <<"yes">>) \/ StartsWith(curr, <<"no">>)
               \/ StartsWith(curr, <<"right">>) THEN 100
       ELSE 500

\* C24: the gap is the base of the first matching rule (previous text ends
\* with '?': 0.8 s; current text starts with well/um/uh: 1.2 s; starts with
\* yes/no/right: 0.1 s; otherwise 0.5 s) plus a jitter in [-0.1, 0.2] s,
\* and is never below 0.05 s.
C24_GapOfFirstMatchingRule ==
    last_gap # NoGap
    => LET base == FirstMatchingBase(last_gap.prev_text, last_gap.curr_text)
       IN /\ last_gap.gap - base >= -100
          /\ last_gap.gap - base <= 200
          /\ last_gap.gap >= 50
          /\ last_gap.gap = base + last_gap.variation \/ last_gap.gap = 50

\* a quick answer to a question, timed as a question response
C24_Witness ==
    /\ last_gap # NoGap
    /\ EndsWithQuestionMark(StripText(last_gap.prev_text))
    /\ StartsWith(LowerText(StripText(last_gap.curr_text)), <<"yes">>)
    /\ last_gap.gap = 700

\* the gap of an interruption with the lowest jitter, raised to 0.05 s
C24_WitnessClamped ==
    /\ last_gap # NoGap
    /\ FirstMatchingBase(last_gap.prev_text, last_gap.curr_text) = 100
    /\ last_gap.variation = -100
    /\ last_gap.gap = 50

\* C29: with overlaps enabled every start_time is >= 0 and not earlier than
\* the previous segment's start_time, for every sequence of clip durations,
\* so no overlay position is negative.
C29_StartTimesNeverNegative ==
    add_overlaps
    => /\ \A i \in 1..Len(timed_segments) :
            /\ timed_segments[i].start_time >= 0
            /\ i > 1 => timed_segments[i].start_time >= timed_segments[i - 1].start_time
       /\ \A j \in 1..Len(positions) : positions[j].position >= 0

====
